---- MODULE Spec2Model ----
(***************************************************************************)
(* Model of auto-folder-icon: the scan scheduler (core/scheduler.py), the  *)
(* thumbnail embedder (core/thumbnail_embedder.py), the folder-icon        *)
(* manager (core/icon_manager.py, utils/file_utils.py, utils/image_utils)  *)
(* with its remove and cache sweep, the two batch loops and the media      *)
(* scanner (core/scanner.py).                                              *)
(***************************************************************************)
EXTENDS Integers, Sequences, FiniteSets, TLC

VARIABLES
    \* ---- TaskScheduler (core/scheduler.py)
    scan_in_progress,   \* TaskScheduler._scan_in_progress
    spc,                \* position of each run: run 0 is the scheduler job, 1.. are manual workers
    sched_runs,         \* number of scheduled invocations so far
    sraised,            \* the runs whose try block raised (history)
    \* ---- ThumbnailEmbedder (core/thumbnail_embedder.py)
    ffmpeg_path,        \* ThumbnailEmbedder.ffmpeg_path after _validate_ffmpeg: "none", "valid" or "missing"
    tmdb_client,        \* TRUE iff a TMDB client was passed to the constructor
    efs,                \* per movie: the files at video_path, backup_path and temp_output
    thumbs,             \* thumbnail cache directory: safe title -> state of <safe_title>_thumb.jpg
    elast,              \* what the last embed_movie_thumbnail call did and returned
    evideo0,            \* per movie: the video's content before any embed call
    ebackup_only,       \* per movie: TRUE while every embed call on it had backup enabled
    embed_calls,        \* number of embed_movie_thumbnail calls so far
    \* ---- IconManager (core/icon_manager.py) and the folders it works on
    icon_client,        \* TRUE iff IconManager.tmdb_client is set
    folders,            \* per folder: its desktop.ini and its read-only attribute
    icons,              \* icon_cache_dir: cache key -> state of <cache_key>.ico
    posters,            \* poster_cache_dir: cache key -> state of <cache_key>.jpg
    ipc,                \* position of the set_tv_show_icon / set_anime_icon call in progress
    icall,              \* arguments of that call, and the folder and cache as it found them
    iret,               \* return value of the last finished call
    ilog,               \* last message the call logged
    iapplied,           \* folders on which an apply has run to completion
    icon_calls,         \* number of set_*_icon calls so far
    \* ---- batch_set_icons and batch_embed_thumbnails
    bpc,                \* "idle", "icons" or "thumbs" while a batch loop runs, "done" after it returned
    bitems,             \* the items argument: folders, or movies
    bmt,                \* batch_set_icons' media_type argument
    bcb,                \* TRUE iff a progress_callback was passed
    bi,                 \* number of loop iterations finished
    bcount,             \* the locals successful, failed and skipped
    bcalls,             \* number of times progress_callback was invoked
    bsuccess,           \* the local `success`: "unbound", "true" or "false"
    bout,               \* per finished item, what its apply did
    bcb_raised,         \* TRUE iff some progress_callback invocation raised
    bresult,            \* the dictionary the batch returned
    \* ---- IconManager.remove_icon
    rlast,              \* what the last remove_icon call found and returned
    remove_calls,       \* number of remove_icon calls so far
    rpc,                \* "idle", or "attr": remove_icon is past the unlink
    evicted,            \* the cache files clean_icon_cache has deleted (history)
    \* ---- MediaScanner (core/scanner.py) and the tree under the media directory
    scan_root,          \* what the media directory path is: "dir", "file" or "missing"
    scan_entries,       \* the entries of the media directory, in iterdir order
    anime_cache,        \* MediaScanner._anime_cache: key -> "unset", "true" or "false"
    scan_pc,            \* position of the scan_directory call in progress
    scan_detect,        \* scan_directory's detect_anime argument (settings.features.anime)
    movies,             \* scan_directory's local movies
    tv_shows,           \* scan_directory's local tv_shows
    anime,              \* the list _detect_anime is building, then scan_directory's local anime
    media_items,        \* the items _detect_anime still has to look at
    scan_result,        \* the ScanResult of the last finished scan
    handed,             \* what _process_scan_results handed to the icon manager and the embedder
    reported,           \* what the scheduler reported for the last scan
    scans,              \* number of scan_directory calls so far
    lookups,            \* per lower-cased title: number of is_likely_anime calls made for it
    lookup_out,         \* per lower-cased title: how its is_likely_anime call ended
    first_verdict,      \* per cache key: the verdict first stored for it
    clast,              \* the last classification: its title, whether it hit the cache, its verdict
    \* ---- IconManager.clean_icon_cache and clean_cache (utils/image_utils.py)
    cache_files,        \* per cache directory and file: "absent", "fresh" or "old" (older than max_age)
    kpc,                \* "idle", the directory clean_cache is sweeping, or "done"
    kqueue,             \* the files cache_dir.glob("*.jpg") has still to yield
    kstep,              \* "is_file" before the is_file test of the next file, "stat" after it
    deleted_count,      \* clean_cache's local deleted_count
    poster_deleted,     \* clean_icon_cache's local poster_deleted
    total_deleted,      \* what clean_icon_cache returned
    swept,              \* the files this sweep has unlinked
    other_deleted,      \* the files another actor has deleted during the sweep
    \* ---- title parsing and cache keys (utils/file_utils.py)
    raw_name,           \* a file stem or folder name, as a sequence of words and separators
    parse_pc,           \* "init", or what was done with the input: "movie", "show", "key"
    parsed,             \* the item scan_movies / scan_tv_shows builds from raw_name, if it keeps one
    safe_in,            \* a title given to get_safe_filename, as a sequence of characters
    safe_out,           \* get_safe_filename(safe_in)
    safe_again,         \* get_safe_filename(safe_out)
    \* ---- AniListClient.is_likely_anime (api/anilist_client.py)
    mquery,             \* the title asked about, a sequence of characters
    mcandidate,         \* what search_anime returned for it
    match_pc,           \* "init", then "done" once is_likely_anime has returned
    mverdict            \* the value is_likely_anime returned

svars == <<scan_in_progress, spc, sched_runs, sraised>>
evars == <<ffmpeg_path, tmdb_client, efs, thumbs, elast, evideo0, ebackup_only, embed_calls>>
bvars == <<bpc, bitems, bmt, bcb, bi, bcount, bcalls, bsuccess, bout, bcb_raised, bresult>>
ivars == <<icon_client, folders, icons, posters, ipc, icall, iret, ilog, iapplied, icon_calls>>
rvars == <<rlast, remove_calls, rpc, evicted>>
cvars == <<scan_root, scan_entries, anime_cache, scan_pc, scan_detect, movies, tv_shows,
           anime, media_items, scan_result, handed, reported, scans, lookups, lookup_out,
           first_verdict, clast>>
kvars == <<cache_files, kpc, kqueue, kstep, deleted_count, poster_deleted, total_deleted,
           swept, other_deleted>>
tvars == <<raw_name, parse_pc, parsed, safe_in, safe_out, safe_again>>
mvars == <<mquery, mcandidate, match_pc, mverdict>>
xvars == <<rvars, cvars, kvars, tvars, mvars>>
vars == <<svars, evars, ivars, bvars, xvars>>

(***************************************************************************)
(* Bounds                                                                  *)
(***************************************************************************)
MaxManual == 2          \* manual_scan invocations (worker threads) modelled
MaxSchedRuns == 2       \* invocations of the periodic job modelled
NEmbedMovies == 1       \* movie files in the embedder's specification
MaxEmbedCalls == 2      \* embed_movie_thumbnail calls modelled
NIconFolders == 1       \* show folders in the icon manager's specification
MaxIconCalls == 2       \* set_tv_show_icon / set_anime_icon calls modelled
NBatch == 2             \* items in a batch
MaxRemoveCalls == 1     \* remove_icon calls modelled
NEntries == 2           \* entries of the media directory
MaxScans == 2           \* scan_directory calls on one MediaScanner
NCacheFiles == 2        \* files in each cache directory
MaxOtherDeletes == 1    \* files another actor deletes during a sweep
MaxNameAtoms == 3       \* words and separators in a file or folder name
MaxQueryTokens == 4     \* words of a title given to is_likely_anime

(***************************************************************************)
(* TaskScheduler                                                           *)
(***************************************************************************)
SchedRun == 0
ManualRuns == 1..MaxManual
Runs == {SchedRun} \cup ManualRuns

\* The phases of a run between setting the flag and the finally block, in order.
RunPhases == <<"started", "scan", "apply", "save", "completed">>
PhaseSet == {RunPhases[i] : i \in 1..Len(RunPhases)}

NextPhase(p) ==
    LET i == CHOOSE j \in 1..Len(RunPhases) : RunPhases[j] = p
    IN  IF i = Len(RunPhases) THEN "finally" ELSE RunPhases[i + 1]

SchedInit ==
    /\ scan_in_progress = FALSE
    /\ spc = [r \in Runs |-> "idle"]
    /\ sched_runs = 0
    /\ sraised = {}

\* manual_scan on the caller's thread: the flag test, then Thread.start().
\* The worker sets the flag later, on its own thread.
ManualScanCheck(flag, w) ==
    IF flag THEN [spc EXCEPT ![w] = "skipped"]
            ELSE [spc EXCEPT ![w] = "checked"]

manual_scan(w) ==
    /\ spc[w] = "idle"
    /\ \A v \in ManualRuns : v < w => spc[v] # "idle"
    /\ spc' = ManualScanCheck(scan_in_progress, w)
    /\ UNCHANGED <<scan_in_progress, sched_runs, sraised>>
    /\ UNCHANGED <<evars, ivars, bvars, xvars>>

\* _perform_scheduled_scan, the flag test at its top (the job runs on the
\* scheduler's thread; max_instances=1 keeps it from overlapping itself).
PerformScheduledScanCheck(flag) ==
    IF flag THEN [spc EXCEPT ![SchedRun] = "skipped"]
            ELSE [spc EXCEPT ![SchedRun] = "checked"]

perform_scheduled_scan ==
    /\ spc[SchedRun] = "idle"
    /\ sched_runs < MaxSchedRuns
    /\ sched_runs' = sched_runs + 1
    /\ sraised' = sraised \ {SchedRun}
    /\ spc' = PerformScheduledScanCheck(scan_in_progress)
    /\ UNCHANGED scan_in_progress
    /\ UNCHANGED <<evars, ivars, bvars, xvars>>

\* self._scan_in_progress = True, first statement of the try block.
SetInProgress(r) ==
    /\ spc[r] = "checked"
    /\ scan_in_progress' = TRUE
    /\ spc' = [spc EXCEPT ![r] = "started"]
    /\ UNCHANGED <<sched_runs, sraised>>
    /\ UNCHANGED <<evars, ivars, bvars, xvars>>

\* One phase of the try block finishes normally.
RunStep(r) ==
    /\ spc[r] \in PhaseSet
    /\ spc' = [spc EXCEPT ![r] = NextPhase(spc[r])]
    /\ UNCHANGED <<scan_in_progress, sched_runs, sraised>>
    /\ UNCHANGED <<evars, ivars, bvars, xvars>>

\* One phase of the try block raises: control goes to the except clause.
RunRaise(r) ==
    /\ spc[r] \in PhaseSet
    /\ spc' = [spc EXCEPT ![r] = "except"]
    /\ sraised' = sraised \cup {r}
    /\ UNCHANGED <<scan_in_progress, sched_runs>>
    /\ UNCHANGED <<evars, ivars, bvars, xvars>>

\* The except clause (logging, scan_error_callback) ends, normally or by raising.
RunExcept(r) ==
    /\ spc[r] = "except"
    /\ spc' = [spc EXCEPT ![r] = "finally"]
    /\ UNCHANGED <<scan_in_progress, sched_runs, sraised>>
    /\ UNCHANGED <<evars, ivars, bvars, xvars>>

\* a cleanup that runs only when the try block did not raise
ClearOnlyAfterSuccess(r) ==
    /\ spc[r] = "finally"
    /\ scan_in_progress' = (IF r \in sraised THEN scan_in_progress ELSE FALSE)
    /\ spc' = [spc EXCEPT ![r] = "done"]
    /\ UNCHANGED <<sched_runs, sraised>>
    /\ UNCHANGED <<evars, ivars, bvars, xvars>>

\* finally: self._scan_in_progress = False
ClearInProgress(r) ==
    /\ spc[r] = "finally"
    /\ scan_in_progress' = FALSE
    /\ spc' = [spc EXCEPT ![r] = "done"]
    /\ UNCHANGED <<sched_runs, sraised>>
    /\ UNCHANGED <<evars, ivars, bvars, xvars>>

\* The periodic job has returned; the trigger may fire it again.
SchedReturn ==
    /\ spc[SchedRun] \in {"done", "skipped"}
    /\ spc' = [spc EXCEPT ![SchedRun] = "idle"]
    /\ UNCHANGED <<scan_in_progress, sched_runs, sraised>>
    /\ UNCHANGED <<evars, ivars, bvars, xvars>>

SchedNext ==
    \/ \E w \in ManualRuns : manual_scan(w)
    \/ perform_scheduled_scan
    \/ \E r \in Runs : SetInProgress(r)
    \/ \E r \in Runs : RunStep(r)
    \/ \E r \in Runs : RunRaise(r)
    \/ \E r \in Runs : RunExcept(r)
    \/ \E r \in Runs : ClearInProgress(r)
    \/ SchedReturn


(***************************************************************************)
(* Titles and cache keys (utils/file_utils.py)                             *)
(***************************************************************************)
\* Titles are sequences of one-character strings.
UnsafeChars == {"<", ">", ":", "\"", "/", "\\", "|", "?", "*"}
Whitespace == {" ", "\t"}
StripChars == {".", "_"}
MaxNameLen == 100

TitleTable == << <<"a", ":", "b">>, <<"a", " ", "b">>, <<"c">>, <<"d", ".">> >>
TitleOf(i) == TitleTable[((i - 1) % Len(TitleTable)) + 1]

\* re.sub(r'[<>:"/\\|?*]', '_', title)
ReplaceUnsafe(t) == [i \in 1..Len(t) |-> IF t[i] \in UnsafeChars THEN "_" ELSE t[i]]

\* re.sub(r'\s+', '_', s): every maximal run of whitespace becomes one underscore
\* (the last whitespace of a run is replaced, the others are dropped)
Dropped == ""
IsKept(c) == c # Dropped
CollapseWhitespace(t) ==
    LET marked == [i \in 1..Len(t) |->
                      IF t[i] \notin Whitespace THEN t[i]
                      ELSE IF i < Len(t) /\ t[i + 1] \in Whitespace THEN Dropped
                      ELSE "_"]
    IN  SelectSeq(marked, IsKept)

\* str.strip('._'), one side at a time
LStrip(t) ==
    LET body == {i \in 1..Len(t) : t[i] \notin StripChars}
    IN  IF body = {} THEN <<>>
        ELSE SubSeq(t, CHOOSE i \in body : \A j \in body : i <= j, Len(t))

RStrip(t) ==
    LET body == {i \in 1..Len(t) : t[i] \notin StripChars}
    IN  IF body = {} THEN <<>>
        ELSE SubSeq(t, 1, CHOOSE i \in body : \A j \in body : i >= j)

Truncate(t) == IF Len(t) > MaxNameLen THEN SubSeq(t, 1, MaxNameLen) ELSE t

get_safe_filename(title) == Truncate(RStrip(LStrip(CollapseWhitespace(ReplaceUnsafe(title)))))

(***************************************************************************)
(* Files                                                                   *)
(***************************************************************************)
NoFile == [exists |-> FALSE, data |-> <<>>]
MkFile(d) == [exists |-> TRUE, data |-> d]

\* Cached artifacts (posters, icons, thumbnails): only how much of the file
\* has been written matters.
ArtStates == {"absent", "empty", "partial", "complete"}
ArtExists(a) == a # "absent"

(***************************************************************************)
(* ThumbnailEmbedder                                                       *)
(***************************************************************************)
EmbedMovies == 1..NEmbedMovies

VideoExtensions == {".mp4", ".mkv", ".avi", ".mov", ".wmv", ".flv", ".webm",
                    ".m4v", ".mpg", ".mpeg", ".3gp", ".ts", ".mts"}
MovieSuffix(m) == ".mkv"
is_video_file(m) == MovieSuffix(m) \in VideoExtensions

\* What ffmpeg writes for an input: all its streams plus the attached picture.
Remux(d) == <<"T">> \o d
PartialData == <<"P">>

\* The outcomes of the external tool: its exit (or the 300 s timeout) and what
\* it left at the output path.
ToolOutcomes ==
    {[rc |-> "zero", out |-> o] : o \in {"full", "empty", "none"}}
    \cup {[rc |-> "nonzero", out |-> o] : o \in {"none", "empty", "partial"}}
    \cup {[rc |-> "timeout", out |-> o] : o \in {"none", "empty", "partial"}}

\* What the environment decides during one embed_movie_thumbnail call: the
\* poster lookup, the download, the thumbnail save, the backup copy, the tool,
\* and the unlink and rename calls. A step the call never reaches, because an
\* earlier one failed, keeps its default.
DefaultEnv ==
    [lookup |-> "url", download |-> "ok", save |-> "ok", copy |-> "ok",
     tool |-> [rc |-> "zero", out |-> "full"],
     unlink_temp |-> "ok", unlink_video |-> "ok", rename |-> "ok"]

EmbedEnvs ==
    {[DefaultEnv EXCEPT !.lookup = l] : l \in {"none", "raise"}}
    \cup {[DefaultEnv EXCEPT !.download = "fail"]}
    \cup {[DefaultEnv EXCEPT !.save = x] : x \in {"fail_removed", "fail_partial"}}
    \cup {[DefaultEnv EXCEPT !.copy = "raise"]}
    \cup {[DefaultEnv EXCEPT !.tool = t] : t \in ToolOutcomes}
    \cup {[DefaultEnv EXCEPT !.tool = t, !.unlink_temp = "raise"] :
             t \in {u \in ToolOutcomes : u.rc = "nonzero"}}
    \cup {[DefaultEnv EXCEPT !.tool = t, !.unlink_video = "raise"] :
             t \in {u \in ToolOutcomes : u.rc = "zero"}}
    \cup {[DefaultEnv EXCEPT !.tool = t, !.rename = "raise"] :
             t \in {u \in ToolOutcomes : u.rc = "zero"}}

\* _prepare_thumbnail: the new state of the thumbnail file and whether a path is returned.
PrepareThumbnail(art, env) ==
    IF ArtExists(art) THEN [art |-> art, ok |-> TRUE, produced |-> FALSE]
    ELSE IF env.download = "fail" THEN [art |-> art, ok |-> FALSE, produced |-> FALSE]
    ELSE IF env.save = "ok" THEN [art |-> "complete", ok |-> TRUE, produced |-> TRUE]
    ELSE IF env.save = "fail_partial" THEN [art |-> "partial", ok |-> FALSE, produced |-> TRUE]
    ELSE [art |-> "absent", ok |-> FALSE, produced |-> TRUE]

\* Mutant: the copy is made even when a backup already exists.
BackupStepOverwrite(f, backup, env) ==
    IF backup
    THEN IF ~f.video.exists \/ env.copy = "raise"
         THEN [f |-> f, raised |-> TRUE]
         ELSE [f |-> [f EXCEPT !.backup = MkFile(f.video.data)], raised |-> FALSE]
    ELSE [f |-> f, raised |-> FALSE]

\* _embed_with_ffmpeg, "Create backup if requested".
BackupStep(f, backup, env) ==
    IF backup /\ ~f.backup.exists
    THEN IF ~f.video.exists \/ env.copy = "raise"
         THEN [f |-> f, raised |-> TRUE]
         ELSE [f |-> [f EXCEPT !.backup = MkFile(f.video.data)], raised |-> FALSE]
    ELSE [f |-> f, raised |-> FALSE]

\* The tool's outcome for this input: with no input file it can only fail.
EffectiveTool(f, env) ==
    IF f.video.exists THEN env.tool ELSE [rc |-> "nonzero", out |-> "none"]

\* subprocess.run(cmd, timeout=300): the tool writes (or not) temp_output; -y overwrites.
ToolRun(f, tool) ==
    CASE tool.out = "none" -> f
      [] tool.out = "empty" -> [f EXCEPT !.temp = MkFile(<<>>)]
      [] tool.out = "partial" -> [f EXCEPT !.temp = MkFile(PartialData)]
      [] tool.out = "full" -> [f EXCEPT !.temp = MkFile(Remux(f.video.data))]

\* Mutant: the exit code is not inspected before the swap.
AfterToolIgnoreExit(f, tool, env) ==
    IF tool.rc = "timeout" THEN [f |-> f, ret |-> FALSE, swap |-> "none"]
    ELSE IF f.temp.exists
    THEN IF env.unlink_video = "raise" \/ ~f.video.exists
         THEN [f |-> f, ret |-> FALSE, swap |-> "unlink_raised"]
         ELSE IF env.rename = "raise"
              THEN [f |-> [f EXCEPT !.video = NoFile], ret |-> FALSE, swap |-> "rename_raised"]
              ELSE [f |-> [f EXCEPT !.video = f.temp, !.temp = NoFile], ret |-> TRUE, swap |-> "done"]
    ELSE [f |-> f, ret |-> FALSE, swap |-> "none"]

\* _embed_with_ffmpeg after subprocess.run: the exit-code test, the swap, the
\* two except clauses.
AfterTool(f, tool, env) ==
    IF tool.rc = "timeout" THEN [f |-> f, ret |-> FALSE, swap |-> "none"]
    ELSE IF tool.rc # "zero"
    THEN IF ~f.temp.exists THEN [f |-> f, ret |-> FALSE, swap |-> "none"]
         ELSE IF env.unlink_temp = "ok"
         THEN [f |-> [f EXCEPT !.temp = NoFile], ret |-> FALSE, swap |-> "none"]
         ELSE [f |-> f, ret |-> FALSE, swap |-> "temp_unlink_raised"]
    ELSE IF f.temp.exists
    THEN IF env.unlink_video = "raise" \/ ~f.video.exists
         THEN [f |-> f, ret |-> FALSE, swap |-> "unlink_raised"]
         ELSE IF env.rename = "raise"
              THEN [f |-> [f EXCEPT !.video = NoFile], ret |-> FALSE, swap |-> "rename_raised"]
              ELSE [f |-> [f EXCEPT !.video = f.temp, !.temp = NoFile], ret |-> TRUE, swap |-> "done"]
    ELSE [f |-> f, ret |-> FALSE, swap |-> "none"]

\* _embed_with_ffmpeg(video_path, thumbnail_path, backup)
EmbedWithFfmpeg(f, path, backup, env) ==
    LET b == BackupStep(f, backup, env)
        tool == EffectiveTool(b.f, env)
    IN  IF b.raised THEN [f |-> b.f, ret |-> FALSE, rc |-> "notrun", out |-> "none", swap |-> "none"]
        ELSE IF path = "missing"
        THEN [f |-> b.f, ret |-> FALSE, rc |-> "notrun", out |-> "none", swap |-> "none"]
        ELSE LET a == AfterTool(ToolRun(b.f, tool), tool, env)
             IN  [f |-> a.f, ret |-> a.ret, rc |-> tool.rc, out |-> tool.out, swap |-> a.swap]

\* embed_movie_thumbnail(movie_path, title, year, backup): the files of the
\* movie, the thumbnail file and the return value.
EmbedMovieThumbnail(f, art, m, path, client, backup, env) ==
    LET fail == [f |-> f, art |-> art, ret |-> FALSE, rc |-> "notrun", out |-> "none",
                 swap |-> "none", stage |-> "guard"]
    IN  IF path = "none" \/ ~client \/ ~is_video_file(m) THEN fail
        ELSE IF env.lookup # "url" THEN [fail EXCEPT !.stage = "lookup"]
        ELSE LET t == PrepareThumbnail(art, env)
             IN  IF ~t.ok THEN [fail EXCEPT !.art = t.art, !.stage = "thumbnail"]
                 ELSE LET e == EmbedWithFfmpeg(f, path, backup, env)
                      IN  [f |-> e.f, art |-> t.art, ret |-> e.ret, rc |-> e.rc,
                           out |-> e.out, swap |-> e.swap, stage |-> "ffmpeg"]

ThumbKeys(ms) == {get_safe_filename(TitleOf(m)) : m \in ms}

NoCall == [m |-> 0, backup |-> FALSE, ret |-> FALSE, rc |-> "notrun", out |-> "none",
           swap |-> "none", stage |-> "none", pre |-> NoFile]

\* The embedder after construction, with nothing embedded yet.
EmbedIdle ==
    /\ ffmpeg_path = "valid"
    /\ tmdb_client = TRUE
    /\ efs = [m \in {} |-> NoFile]
    /\ thumbs = [k \in {} |-> "absent"]
    /\ elast = NoCall
    /\ evideo0 = [m \in {} |-> <<>>]
    /\ ebackup_only = [m \in {} |-> TRUE]
    /\ embed_calls = 0

\* __init__ and _validate_ffmpeg: the configured path exists or ffmpeg is on PATH
\* ("valid"), no path was configured and none found ("none"), or a configured
\* path that does not exist is kept ("missing").
EmbedInit ==
    /\ ffmpeg_path \in {"valid", "none", "missing"}
    /\ tmdb_client \in BOOLEAN
    /\ \E d \in {<<"V">>, <<"T", "V">>} :
         /\ efs = [m \in EmbedMovies |-> [video |-> MkFile(d), backup |-> NoFile, temp |-> NoFile]]
         /\ evideo0 = [m \in EmbedMovies |-> d]
    /\ thumbs = [k \in ThumbKeys(EmbedMovies) |-> "absent"]
    /\ elast = NoCall
    /\ ebackup_only = [m \in EmbedMovies |-> TRUE]
    /\ embed_calls = 0

\* One embed_movie_thumbnail(movie_path, title, year, backup) call, under the
\* environment's choices env.
EmbedCall(m, backup, env) ==
    LET key == get_safe_filename(TitleOf(m))
        r == EmbedMovieThumbnail(efs[m], thumbs[key], m, ffmpeg_path, tmdb_client, backup, env)
    IN  /\ efs' = [efs EXCEPT ![m] = r.f]
        /\ thumbs' = [thumbs EXCEPT ![key] = r.art]
        /\ elast' = [m |-> m, backup |-> backup, ret |-> r.ret, rc |-> r.rc, out |-> r.out,
                     swap |-> r.swap, stage |-> r.stage, pre |-> efs[m].video]
        /\ ebackup_only' = [ebackup_only EXCEPT ![m] = @ /\ backup]
        /\ embed_calls' = embed_calls + 1
        /\ UNCHANGED <<ffmpeg_path, tmdb_client, evideo0>>

embed_movie_thumbnail(m, backup) ==
    /\ embed_calls < MaxEmbedCalls
    /\ \E env \in EmbedEnvs : EmbedCall(m, backup, env)
    /\ UNCHANGED <<svars, ivars, bvars, xvars>>

EmbedNext == \E m \in DOMAIN efs, backup \in BOOLEAN : embed_movie_thumbnail(m, backup)


(***************************************************************************)
(* IconManager: set_tv_show_icon, set_anime_icon, _create_and_set_icon,    *)
(* with create_desktop_ini, has_custom_icon (utils/file_utils.py) and      *)
(* cache_poster, create_folder_icon (utils/image_utils.py)                 *)
(***************************************************************************)
IconFolders == 1..NIconFolders
MediaTypes == {"tv", "anime"}

MediaPrefix(mt) == IF mt = "tv" THEN <<"t", "v">> ELSE <<"a", "n", "i", "m", "e">>

\* cache_key = f"{media_type}_{safe_title}"
CacheKey(mt, title) == MediaPrefix(mt) \o <<"_">> \o get_safe_filename(title)
IconKeys(fs) == {CacheKey(mt, TitleOf(f)) : mt \in MediaTypes, f \in fs}

\* desktop.ini: absent, opened for writing and still empty, or written with
\* the IconResource line naming an icon; and its hidden+system attributes.
NoMarker == [st |-> "absent", icon |-> <<>>, hidden |-> FALSE]
NewFolder == [marker |-> NoMarker, readonly |-> FALSE]

\* Mutant: the test looks for the folder attribute instead of the marker file.
HasCustomIconByAttribute(fo) == fo.readonly

\* has_custom_icon(folder_path): desktop.ini exists.
has_custom_icon(fo) == fo.marker.st # "absent"

NoIconCall == [f |-> 0, mt |-> "tv", force |-> FALSE, pre |-> NewFolder,
               pre_icons |-> <<>>, pre_posters |-> <<>>, ops |-> 0, prod |-> 0]

\* The icon manager after construction, before any call.
IconIdle ==
    /\ icon_client = TRUE
    /\ folders = [f \in {} |-> NewFolder]
    /\ icons = [k \in {} |-> "absent"]
    /\ posters = [k \in {} |-> "absent"]
    /\ ipc = "idle"
    /\ icall = NoIconCall
    /\ iret = FALSE
    /\ ilog = "none"
    /\ iapplied = {}
    /\ icon_calls = 0

IconInitOver(fs) ==
    /\ icon_client \in BOOLEAN
    /\ folders = [f \in fs |-> NewFolder]
    /\ icons = [k \in IconKeys(fs) |-> "absent"]
    /\ posters = [k \in IconKeys(fs) |-> "absent"]
    /\ ipc = "idle"
    /\ icall = NoIconCall
    /\ iret = FALSE
    /\ ilog = "none"
    /\ iapplied = {}
    /\ icon_calls = 0

IconInit == IconInitOver(IconFolders)

CallKey == CacheKey(icall.mt, TitleOf(icall.f))
CountOp == [icall EXCEPT !.ops = @ + 1]
\* The same for a step of the producer: the poster download and the two saves.
CountProd == [icall EXCEPT !.ops = @ + 1, !.prod = @ + 1]

\* The call returns `ret` after logging `msg`.
IconReturns(ret, msg) ==
    /\ ipc' = "returned"
    /\ iret' = ret
    /\ ilog' = msg

\* set_tv_show_icon / set_anime_icon up to the poster lookup: the idempotence
\* guard, and for TV shows the test for a TMDB client.
IconCall(f, mt, force) ==
    /\ ipc = "idle"
    /\ icon_calls' = icon_calls + 1
    /\ icall' = [f |-> f, mt |-> mt, force |-> force, pre |-> folders[f],
                 pre_icons |-> icons, pre_posters |-> posters, ops |-> 0, prod |-> 0]
    /\ IF ~force /\ has_custom_icon(folders[f])
       THEN IconReturns(TRUE, "skipping")
       ELSE IF mt = "tv" /\ ~icon_client
       THEN IconReturns(FALSE, "no_client")
       ELSE ipc' = "lookup" /\ ilog' = "setting" /\ UNCHANGED iret
    /\ UNCHANGED <<icon_client, folders, icons, posters, iapplied>>
    /\ UNCHANGED <<svars, evars, bvars, xvars>>

\* get_tv_poster / get_anime_poster: a URL, nothing, or an exception, which
\* leaves set_*_icon uncaught.
IconLookup ==
    /\ ipc = "lookup"
    /\ icall' = CountOp
    /\ \E r \in {"url", "none", "raise"} :
         CASE r = "url" -> ipc' = "cache_check" /\ UNCHANGED <<iret, ilog>>
           [] r = "none" -> IconReturns(FALSE, "no_poster")
           [] r = "raise" -> ipc' = "raised" /\ UNCHANGED <<iret, ilog>>
    /\ UNCHANGED <<icon_client, folders, icons, posters, iapplied, icon_calls>>
    /\ UNCHANGED <<svars, evars, bvars, xvars>>

\* A _create_and_set_icon that produces the icon whether or not it is cached.
IconCacheCheckAlwaysProduce ==
    /\ ipc = "cache_check"
    /\ ipc' = "download" /\ ilog' = "downloading"
    /\ UNCHANGED <<icon_client, folders, icons, posters, icall, iret, iapplied, icon_calls>>
    /\ UNCHANGED <<svars, evars, bvars, xvars>>

\* _create_and_set_icon: icon_path.exists()
IconCacheCheck ==
    /\ ipc = "cache_check"
    /\ IF ArtExists(icons[CallKey])
       THEN ipc' = "ini_open" /\ ilog' = "cached_icon"
       ELSE ipc' = "download" /\ ilog' = "downloading"
    /\ UNCHANGED <<icon_client, folders, icons, posters, icall, iret, iapplied, icon_calls>>
    /\ UNCHANGED <<svars, evars, bvars, xvars>>

\* download_image(poster_url)
IconDownload ==
    /\ ipc = "download"
    /\ icall' = CountProd
    /\ \/ ipc' = "poster_open" /\ UNCHANGED <<iret, ilog>>
       \/ IconReturns(FALSE, "download_failed")
    /\ UNCHANGED <<icon_client, folders, icons, posters, iapplied, icon_calls>>
    /\ UNCHANGED <<svars, evars, bvars, xvars>>

\* Image.save opens its target path for writing: the file exists, empty.
SaveOpen(cache, key) == [cache EXCEPT ![key] = "empty"]

\* Image.save then writes the file, or fails part-way and removes or leaves it.
SaveWrite(cache, key, outcome) ==
    [cache EXCEPT ![key] = CASE outcome = "ok" -> "complete"
                             [] outcome = "fail_partial" -> "partial"
                             [] outcome = "fail_removed" -> "absent"]
SaveOutcomes == {"ok", "fail_partial", "fail_removed"}

\* cache_poster: image.save(cache_path, 'JPEG', ...)
PosterOpen ==
    /\ ipc = "poster_open"
    /\ posters' = SaveOpen(posters, CallKey)
    /\ icall' = CountProd
    /\ ipc' = "poster_write"
    /\ UNCHANGED <<icon_client, folders, icons, iret, ilog, iapplied, icon_calls>>
    /\ UNCHANGED <<svars, evars, bvars, xvars>>

PosterWrite ==
    /\ ipc = "poster_write"
    /\ \E o \in SaveOutcomes :
         /\ posters' = SaveWrite(posters, CallKey, o)
         /\ IF o = "ok" THEN ipc' = "icon_open" /\ UNCHANGED <<iret, ilog>>
            ELSE IconReturns(FALSE, "cache_poster_failed")
    /\ UNCHANGED <<icon_client, folders, icons, icall, iapplied, icon_calls>>
    /\ UNCHANGED <<svars, evars, bvars, xvars>>

\* create_folder_icon: icon_images[0].save(output_path, format='ICO', ...)
IconOpen ==
    /\ ipc = "icon_open"
    /\ icons' = SaveOpen(icons, CallKey)
    /\ icall' = CountProd
    /\ ipc' = "icon_write"
    /\ UNCHANGED <<icon_client, folders, posters, iret, ilog, iapplied, icon_calls>>
    /\ UNCHANGED <<svars, evars, bvars, xvars>>

IconWrite ==
    /\ ipc = "icon_write"
    /\ \E o \in SaveOutcomes :
         /\ icons' = SaveWrite(icons, CallKey, o)
         /\ IF o = "ok" THEN ipc' = "ini_open" /\ UNCHANGED <<iret, ilog>>
            ELSE IconReturns(FALSE, "create_icon_failed")
    /\ UNCHANGED <<icon_client, folders, posters, icall, iapplied, icon_calls>>
    /\ UNCHANGED <<svars, evars, bvars, xvars>>

\* A create_desktop_ini that sets the folder's attribute first and writes the
\* marker afterwards.
IniOpenFlagFirst ==
    /\ ipc = "ini_open"
    /\ icall' = CountOp
    /\ \/ /\ folders' = [folders EXCEPT ![icall.f] =
                            [marker |-> [st |-> "empty", icon |-> <<>>, hidden |-> @.marker.hidden],
                             readonly |-> TRUE]]
          /\ ipc' = "ini_write" /\ UNCHANGED <<iret, ilog>>
       \/ UNCHANGED folders /\ IconReturns(FALSE, "desktop_ini_failed")
    /\ UNCHANGED <<icon_client, icons, posters, iapplied, icon_calls>>
    /\ UNCHANGED <<svars, evars, bvars, xvars>>

\* create_desktop_ini: open(desktop_ini_path, 'w') creates or truncates the
\* marker, or raises.
IniOpen ==
    /\ ipc = "ini_open"
    /\ icall' = CountOp
    /\ \/ /\ folders' = [folders EXCEPT ![icall.f].marker =
                            [st |-> "empty", icon |-> <<>>, hidden |-> @.hidden]]
          /\ ipc' = "ini_write" /\ UNCHANGED <<iret, ilog>>
       \/ UNCHANGED folders /\ IconReturns(FALSE, "desktop_ini_failed")
    /\ UNCHANGED <<icon_client, icons, posters, iapplied, icon_calls>>
    /\ UNCHANGED <<svars, evars, bvars, xvars>>

\* create_desktop_ini: f.write(ini_content) and the close of the with block.
IniWrite ==
    /\ ipc = "ini_write"
    /\ \/ /\ folders' = [folders EXCEPT ![icall.f].marker =
                            [st |-> "complete", icon |-> CallKey, hidden |-> @.hidden]]
          /\ ipc' = "ini_attrs" /\ UNCHANGED <<iret, ilog>>
       \/ UNCHANGED folders /\ IconReturns(FALSE, "desktop_ini_failed")
    /\ UNCHANGED <<icon_client, icons, posters, icall, iapplied, icon_calls>>
    /\ UNCHANGED <<svars, evars, bvars, xvars>>

\* create_desktop_ini: SetFileAttributesW(desktop.ini, HIDDEN | SYSTEM)
IniAttrs ==
    /\ ipc = "ini_attrs"
    /\ \/ /\ folders' = [folders EXCEPT ![icall.f].marker.hidden = TRUE]
          /\ ipc' = "folder_attr" /\ UNCHANGED <<iret, ilog>>
       \/ UNCHANGED folders /\ IconReturns(FALSE, "desktop_ini_failed")
    /\ UNCHANGED <<icon_client, icons, posters, icall, iapplied, icon_calls>>
    /\ UNCHANGED <<svars, evars, bvars, xvars>>

\* create_desktop_ini: SetFileAttributesW(folder, READONLY); then
\* refresh_folder_icon, which never raises, and return True.
FolderAttr ==
    /\ ipc = "folder_attr"
    /\ \/ /\ folders' = [folders EXCEPT ![icall.f].readonly = TRUE]
          /\ iapplied' = iapplied \cup {icall.f}
          /\ IconReturns(TRUE, "success")
       \/ UNCHANGED <<folders, iapplied>> /\ IconReturns(FALSE, "desktop_ini_failed")
    /\ UNCHANGED <<icon_client, icons, posters, icall, icon_calls>>
    /\ UNCHANGED <<svars, evars, bvars, xvars>>

\* remove_icon on a folder: desktop.ini is unlinked if it exists (the unlink
\* may raise, and then the call returns False with nothing changed), then the
\* folder's attributes are set to NORMAL, Explorer is notified, True.
RemoveOutcomes == {"ok", "unlink_raises"}

\* An unlink that leaves desktop.ini in place.
UnlinkMarkerKeep(fo) == fo

\* desktop_ini_path.unlink()
UnlinkMarker(fo) == [fo EXCEPT !.marker = NoMarker]

\* SetFileAttributesW(folder, FILE_ATTRIBUTE_NORMAL)
ClearReadOnly(fo) == [fo EXCEPT !.readonly = FALSE]

NoRemoveCall == [f |-> 0, ret |-> FALSE, pre |-> NewFolder, at |-> 0]
RemoveIdle ==
    /\ rlast = NoRemoveCall
    /\ remove_calls = 0
    /\ rpc = "idle"
    /\ evicted = {}

\* Some caller invokes remove_icon on a folder, between two apply calls: the
\* existence test and the unlink. When the unlink raises the call is over.
remove_icon ==
    /\ ipc = "idle"
    /\ rpc = "idle"
    /\ remove_calls < MaxRemoveCalls
    /\ \E f \in DOMAIN folders, o \in RemoveOutcomes :
         /\ rlast' = [f |-> f, ret |-> FALSE, pre |-> folders[f], at |-> icon_calls]
         /\ IF has_custom_icon(folders[f]) /\ o = "unlink_raises"
            THEN UNCHANGED <<folders, rpc>>
            ELSE /\ folders' = [folders EXCEPT ![f] =
                                   IF has_custom_icon(@) THEN UnlinkMarker(@) ELSE @]
                 /\ rpc' = "attr"
    /\ remove_calls' = remove_calls + 1
    /\ UNCHANGED evicted
    /\ UNCHANGED <<icon_client, icons, posters, ipc, icall, iret, ilog, iapplied, icon_calls>>
    /\ UNCHANGED <<svars, evars, bvars, cvars, kvars, tvars, mvars>>

\* remove_icon, after the unlink: the folder's attributes are reset, the icon
\* is refreshed and the call returns True.
RemoveClearAttr ==
    /\ rpc = "attr"
    /\ folders' = [folders EXCEPT ![rlast.f] = ClearReadOnly(@)]
    /\ rlast' = [rlast EXCEPT !.ret = TRUE]
    /\ rpc' = "idle"
    /\ UNCHANGED <<remove_calls, evicted>>
    /\ UNCHANGED <<icon_client, icons, posters, ipc, icall, iret, ilog, iapplied, icon_calls>>
    /\ UNCHANGED <<svars, evars, bvars, cvars, kvars, tvars, mvars>>

\* The steps of a call in progress.
IconSteps ==
    \/ IconLookup
    \/ IconCacheCheck
    \/ IconDownload
    \/ PosterOpen
    \/ PosterWrite
    \/ IconOpen
    \/ IconWrite
    \/ IniOpen
    \/ IniWrite
    \/ IniAttrs
    \/ FolderAttr

\* The caller takes the result (or the exception) of the call.
IconDone ==
    /\ ipc \in {"returned", "raised"}
    /\ ipc' = "idle"
    /\ UNCHANGED <<icon_client, folders, icons, posters, icall, iret, ilog, iapplied, icon_calls>>
    /\ UNCHANGED <<svars, evars, bvars, xvars>>

\* Some caller invokes set_tv_show_icon or set_anime_icon on a folder.
IconInvoke ==
    /\ icon_calls < MaxIconCalls
    /\ rpc = "idle"
    /\ \E f \in DOMAIN folders, mt \in MediaTypes, force \in BOOLEAN : IconCall(f, mt, force)

IconNext ==
    \/ IconInvoke
    \/ IconSteps
    \/ IconDone
    \/ remove_icon
    \/ RemoveClearAttr

(***************************************************************************)
(* IconManager.batch_set_icons and ThumbnailEmbedder.batch_embed_thumbnails *)
(***************************************************************************)
BatchItems == 1..NBatch
BatchMediaTypes == {"tv_shows", "anime", "other"}
ZeroCount == [successful |-> 0, failed |-> 0, skipped |-> 0]

\* The item lists modelled: the first n of the items, for every n.
ItemLists == {[i \in 1..n |-> i] : n \in 0..NBatch}

\* No batch has been started.
BatchIdle ==
    /\ bpc = "idle"
    /\ bitems = <<>>
    /\ bmt = "other"
    /\ bcb = FALSE
    /\ bi = 0
    /\ bcount = ZeroCount
    /\ bcalls = 0
    /\ bsuccess = "unbound"
    /\ bout = <<>>
    /\ bcb_raised = FALSE
    /\ bresult = [total |-> 0]

\* A folder on which an earlier run applied the icon of cache key k.
AppliedFolder(k) ==
    [marker |-> [st |-> "complete", icon |-> k, hidden |-> TRUE], readonly |-> TRUE]

\* The folders and movies a batch finds: some folders already carry an icon
\* from an earlier run, some movies already hold a thumbnail.
BatchInit ==
    /\ BatchIdle
    /\ \E done \in SUBSET BatchItems :
         /\ folders = [f \in BatchItems |->
                          IF f \in done THEN AppliedFolder(CacheKey("tv", TitleOf(f)))
                          ELSE NewFolder]
         /\ icons = [k \in IconKeys(BatchItems) |->
                        IF \E f \in done : k = CacheKey("tv", TitleOf(f))
                        THEN "complete" ELSE "absent"]
         /\ posters = [k \in IconKeys(BatchItems) |->
                          IF \E f \in done : k = CacheKey("tv", TitleOf(f))
                          THEN "complete" ELSE "absent"]
         /\ iapplied = done
    /\ icon_client = TRUE
    /\ ipc = "idle" /\ icall = NoIconCall /\ iret = FALSE /\ ilog = "none" /\ icon_calls = 0
    /\ ffmpeg_path = "valid"
    /\ tmdb_client = TRUE
    /\ \E v \in [BatchItems -> {<<"V">>, <<"T", "V">>}] :
         /\ efs = [m \in BatchItems |-> [video |-> MkFile(v[m]), backup |-> NoFile, temp |-> NoFile]]
         /\ evideo0 = v
    /\ thumbs = [k \in ThumbKeys(BatchItems) |-> "absent"]
    /\ elast = NoCall
    /\ ebackup_only = [m \in BatchItems |-> TRUE]
    /\ embed_calls = 0

BatchStart(kind, items, mt, cb) ==
    /\ bpc = "idle"
    /\ ipc = "idle"
    /\ bpc' = kind
    /\ bitems' = items
    /\ bmt' = mt
    /\ bcb' = cb
    /\ bi' = 0
    /\ bcount' = ZeroCount
    /\ bcalls' = 0
    /\ bsuccess' = "unbound"
    /\ bout' = <<>>
    /\ bcb_raised' = FALSE
    /\ UNCHANGED bresult
    /\ UNCHANGED <<svars, evars, ivars, xvars>>

\* batch_set_icons(items, media_type, progress_callback) is called.
batch_set_icons ==
    \E items \in ItemLists, mt \in BatchMediaTypes, cb \in BOOLEAN :
        BatchStart("icons", items, mt, cb)

\* batch_embed_thumbnails(movies, progress_callback) is called.
batch_embed_thumbnails ==
    \E items \in ItemLists, cb \in BOOLEAN : BatchStart("thumbs", items, "other", cb)

\* The loop body of batch_set_icons calls set_tv_show_icon or set_anime_icon.
BatchIconDispatch ==
    /\ bpc = "icons"
    /\ bi < Len(bitems)
    /\ bmt \in {"tv_shows", "anime"}
    /\ IconCall(bitems[bi + 1], IF bmt = "tv_shows" THEN "tv" ELSE "anime", FALSE)

Bump(count, field) == [count EXCEPT ![field] = @ + 1]

\* The rest of the loop body of batch_set_icons: outcome is "true" or "false"
\* (the apply's return value) or "raised"; the counters, then the callback, and
\* the except clause for whatever raised.
IconIteration(count, calls, outcome, cb, cb_raises) ==
    IF outcome = "raised" THEN [count |-> Bump(count, "failed"), calls |-> calls]
    ELSE LET c1 == Bump(count, IF outcome = "true" THEN "successful" ELSE "failed")
         IN  IF ~cb THEN [count |-> c1, calls |-> calls]
             ELSE [count |-> IF cb_raises THEN Bump(c1, "failed") ELSE c1, calls |-> calls + 1]

\* What the apply of the item did: it raised, it was short-circuited by the
\* idempotence guard, it applied the icon, or it returned failure.
IconOutcomeKind ==
    CASE bmt = "other" -> "failed"
      [] ipc = "raised" -> "raised"
      [] ilog = "skipping" -> "already"
      [] iret -> "applied"
      [] OTHER -> "failed"

BatchIconCollect ==
    /\ bpc = "icons"
    /\ bi < Len(bitems)
    /\ IF bmt = "other" THEN ipc = "idle" ELSE ipc \in {"returned", "raised"}
    /\ LET outcome == CASE bmt = "other" -> "false"
                        [] ipc = "raised" -> "raised"
                        [] iret -> "true"
                        [] OTHER -> "false"
       IN  \E cb_raises \in (IF bcb /\ outcome # "raised" THEN BOOLEAN ELSE {FALSE}) :
             LET r == IconIteration(bcount, bcalls, outcome, bcb, cb_raises)
             IN  /\ bcount' = r.count
                 /\ bcalls' = r.calls
                 /\ bcb_raised' = (bcb_raised \/ cb_raises)
    /\ bout' = Append(bout, IconOutcomeKind)
    /\ bi' = bi + 1
    /\ ipc' = "idle"
    /\ UNCHANGED <<bpc, bitems, bmt, bcb, bsuccess, bresult>>
    /\ UNCHANGED <<icon_client, folders, icons, posters, icall, iret, ilog, iapplied, icon_calls>>
    /\ UNCHANGED <<svars, evars, xvars>>

\* batch_set_icons returns its dictionary: it has no 'skipped' entry.
BatchIconReturn ==
    /\ bpc = "icons"
    /\ bi = Len(bitems)
    /\ bresult' = [total |-> Len(bitems), successful |-> bcount.successful,
                   failed |-> bcount.failed]
    /\ bpc' = "done"
    /\ UNCHANGED <<bitems, bmt, bcb, bi, bcount, bcalls, bsuccess, bout, bcb_raised>>
    /\ UNCHANGED <<svars, evars, ivars, xvars>>

\* has_embedded_thumbnail(video_path): ffmpeg's diagnostic output names an
\* attached picture; a probe that raises or times out answers False.
has_embedded_thumbnail(f, m, path, probe) ==
    /\ path = "valid"
    /\ is_video_file(m)
    /\ probe = "ok"
    /\ f.video.exists
    /\ \E i \in 1..Len(f.video.data) : f.video.data[i] = "T"

\* The loop body of batch_embed_thumbnails after the first probe and the embed:
\* the counters, the evaluation of the callback's last argument (which reads
\* the local `success`), the callback, and the except clause.
ThumbIteration(count, calls, already, success, cb, again, cb_raises) ==
    LET c1 == IF already THEN Bump(count, "skipped")
              ELSE Bump(count, IF success = "true" THEN "successful" ELSE "failed")
    IN  IF ~cb THEN [count |-> c1, calls |-> calls, raised |-> FALSE]
        ELSE IF ~again /\ success = "unbound"
        THEN [count |-> Bump(c1, "failed"), calls |-> calls, raised |-> TRUE]
        ELSE [count |-> IF cb_raises THEN Bump(c1, "failed") ELSE c1,
              calls |-> calls + 1, raised |-> cb_raises]

\* One iteration of the loop of batch_embed_thumbnails.
BatchEmbedStep ==
    /\ bpc = "thumbs"
    /\ bi < Len(bitems)
    /\ LET m == bitems[bi + 1]
       IN  \E p1 \in {"ok", "fail"} :
             LET already == has_embedded_thumbnail(efs[m], m, ffmpeg_path, p1)
             IN  /\ IF already THEN UNCHANGED evars
                    ELSE \E env \in EmbedEnvs : EmbedCall(m, TRUE, env)
                 /\ bsuccess' = IF already THEN bsuccess
                                ELSE IF elast'.ret THEN "true" ELSE "false"
                 /\ \E p2 \in (IF bcb THEN {"ok", "fail"} ELSE {"ok"}),
                       cb_raises \in (IF bcb THEN BOOLEAN ELSE {FALSE}) :
                      LET again == has_embedded_thumbnail(efs'[m], m, ffmpeg_path, p2)
                          r == ThumbIteration(bcount, bcalls, already, bsuccess', bcb,
                                              again, cb_raises)
                      IN  /\ bcount' = r.count
                          /\ bcalls' = r.calls
                          /\ bcb_raised' = (bcb_raised \/ r.raised)
                 /\ bout' = Append(bout, IF already THEN "already"
                                         ELSE IF elast'.ret THEN "applied" ELSE "failed")
    /\ bi' = bi + 1
    /\ UNCHANGED <<bpc, bitems, bmt, bcb, bresult>>
    /\ UNCHANGED <<svars, ivars, xvars>>

\* batch_embed_thumbnails returns its dictionary.
BatchEmbedReturn ==
    /\ bpc = "thumbs"
    /\ bi = Len(bitems)
    /\ bresult' = [total |-> Len(bitems), successful |-> bcount.successful,
                   failed |-> bcount.failed, skipped |-> bcount.skipped]
    /\ bpc' = "done"
    /\ UNCHANGED <<bitems, bmt, bcb, bi, bcount, bcalls, bsuccess, bout, bcb_raised>>
    /\ UNCHANGED <<svars, evars, ivars, xvars>>

BatchNext ==
    \/ batch_set_icons
    \/ BatchIconDispatch
    \/ IconSteps
    \/ BatchIconCollect
    \/ BatchIconReturn
    \/ batch_embed_thumbnails
    \/ BatchEmbedStep
    \/ BatchEmbedReturn

(***************************************************************************)
(* MediaScanner: scan_movies, scan_tv_shows, _detect_anime, scan_directory *)
(***************************************************************************)
\* Titles as clean_title leaves them; two of them differ in case only.
MediaTitles == {<<"N", "a">>, <<"n", "a">>, <<"H">>}

\* str.lower()
LowerChar(c) ==
    CASE c = "N" -> "n" [] c = "H" -> "h" [] c = "A" -> "a" [] c = "B" -> "b" [] OTHER -> c
Lower(t) == [i \in 1..Len(t) |-> LowerChar(t[i])]
LowerTitles == {Lower(t) : t \in MediaTitles}

\* An entry of the media directory: a video file, a show folder (it has season
\* folders) or a plain folder holding one video file. A locked folder cannot
\* be listed: iterdir raises PermissionError on it.
EntrySet ==
    {[kind |-> "movie", title |-> t, locked |-> FALSE] : t \in MediaTitles}
    \cup {[kind |-> k, title |-> t, locked |-> l] :
             k \in {"show", "folder"}, t \in MediaTitles, l \in BOOLEAN}
EntryLists == UNION {[1..n -> EntrySet] : n \in 0..NEntries}

MovieItem(i, e) == [kind |-> "movie", title |-> e.title, path |-> i]
ShowItem(i, e) == [kind |-> "show", title |-> e.title, path |-> i]

\* The subsequence of 1..n whose members satisfy the test, in order.
RECURSIVE Select(_, _)
Select(n, keep) ==
    IF n = 0 THEN <<>>
    ELSE IF keep[n] THEN Append(Select(n - 1, keep), n) ELSE Select(n - 1, keep)

\* scan_movies: directory.rglob('*') yields nothing for a path that is no
\* directory and passes over the folders it cannot list.
scan_movies(root, entries) ==
    IF root # "dir" THEN <<>>
    ELSE LET keep == [i \in 1..Len(entries) |->
                         \/ entries[i].kind = "movie"
                         \/ entries[i].kind = "folder" /\ ~entries[i].locked]
             idx == Select(Len(entries), keep)
         IN  [j \in 1..Len(idx) |-> MovieItem(idx[j], entries[idx[j]])]

\* scan_tv_shows: directory.iterdir() raises for a path that is no directory,
\* and show_dir.iterdir() raises for a folder that cannot be listed; the
\* except clause around the whole loop returns [].
scan_tv_shows(root, entries) ==
    IF root # "dir" THEN <<>>
    ELSE IF \E i \in 1..Len(entries) : entries[i].kind # "movie" /\ entries[i].locked
    THEN <<>>
    ELSE LET keep == [i \in 1..Len(entries) |-> entries[i].kind = "show"]
             idx == Select(Len(entries), keep)
         IN  [j \in 1..Len(idx) |-> ShowItem(idx[j], entries[idx[j]])]

\* The key _detect_anime uses for a title in _anime_cache.
AnimeCacheKeyExact(title) == title
AnimeCacheKey(title) == Lower(title)
CacheKeys == MediaTitles \cup LowerTitles

\* How an is_likely_anime call can end: a matching candidate, a candidate that
\* does not match, no candidate, or an exception.
LookupOutcomes == {"match", "nomatch", "none", "raise"}
is_likely_anime(outcome) == outcome = "match"

\* A _detect_anime whose lookup is not inside a try.
DetectMissNoCatch(outcome) ==
    IF outcome = "raise"
    THEN [store |-> "unset", is_anime |-> FALSE, raised |-> TRUE]
    ELSE [store |-> IF is_likely_anime(outcome) THEN "true" ELSE "false",
          is_anime |-> is_likely_anime(outcome), raised |-> FALSE]

\* _detect_anime on a cache miss: what is stored, whether the item is appended,
\* and whether anything leaves the loop body as an exception.
DetectMiss(outcome) ==
    IF outcome = "raise"
    THEN [store |-> "false", is_anime |-> FALSE, raised |-> FALSE]
    ELSE [store |-> IF is_likely_anime(outcome) THEN "true" ELSE "false",
          is_anime |-> is_likely_anime(outcome), raised |-> FALSE]

NoResult == [movies |-> <<>>, tv_shows |-> <<>>, anime |-> <<>>]
NoHanded == [tv_shows |-> <<>>, anime |-> <<>>, movies |-> <<>>]
NoClassification == [title |-> <<>>, hit |-> FALSE, verdict |-> FALSE]

\* A fresh MediaScanner (its cache is empty) and no media directory.
ScanIdle ==
    /\ scan_root = "missing"
    /\ scan_entries = <<>>
    /\ anime_cache = [k \in CacheKeys |-> "unset"]
    /\ scan_pc = "idle"
    /\ scan_detect = FALSE
    /\ movies = <<>> /\ tv_shows = <<>> /\ anime = <<>> /\ media_items = <<>>
    /\ scan_result = NoResult
    /\ handed = NoHanded
    /\ reported = "none"
    /\ scans = 0
    /\ lookups = [k \in LowerTitles |-> 0]
    /\ lookup_out = [k \in LowerTitles |-> "notrun"]
    /\ first_verdict = [k \in CacheKeys |-> "unset"]
    /\ clast = NoClassification

\* A fresh MediaScanner and a media directory setting: a directory with some
\* entries, a plain file, or a path that does not exist.
ScanInit ==
    /\ scan_root \in {"dir", "file", "missing"}
    /\ scan_entries \in EntryLists
    /\ scan_root # "dir" => scan_entries = <<>>
    /\ anime_cache = [k \in CacheKeys |-> "unset"]
    /\ scan_pc = "idle"
    /\ scan_detect = FALSE
    /\ movies = <<>> /\ tv_shows = <<>> /\ anime = <<>> /\ media_items = <<>>
    /\ scan_result = NoResult
    /\ handed = NoHanded
    /\ reported = "none"
    /\ scans = 0
    /\ lookups = [k \in LowerTitles |-> 0]
    /\ lookup_out = [k \in LowerTitles |-> "notrun"]
    /\ first_verdict = [k \in CacheKeys |-> "unset"]
    /\ clast = NoClassification

\* scan_directory up to the call of _detect_anime.
scan_directory ==
    /\ scan_pc = "idle"
    /\ scans < MaxScans
    /\ scans' = scans + 1
    /\ \E detect \in BOOLEAN :
         /\ scan_detect' = detect
         /\ movies' = scan_movies(scan_root, scan_entries)
         /\ tv_shows' = scan_tv_shows(scan_root, scan_entries)
         /\ media_items' = IF detect THEN movies' \o tv_shows' ELSE <<>>
    /\ anime' = <<>>
    /\ scan_pc' = "detect"
    /\ reported' = "none"
    /\ UNCHANGED <<scan_root, scan_entries, anime_cache, scan_result, handed, lookups,
                   lookup_out, first_verdict, clast>>
    /\ UNCHANGED <<svars, evars, ivars, bvars, rvars, kvars, tvars, mvars>>

\* One iteration of _detect_anime's loop.
DetectAnime ==
    /\ scan_pc = "detect"
    /\ media_items # <<>>
    /\ LET item == Head(media_items)
           key == AnimeCacheKey(item.title)
           lk == Lower(item.title)
       IN  IF anime_cache[key] # "unset"
           THEN /\ anime' = IF anime_cache[key] = "true" THEN Append(anime, item) ELSE anime
                /\ clast' = [title |-> item.title, hit |-> TRUE,
                             verdict |-> anime_cache[key] = "true"]
                /\ media_items' = Tail(media_items)
                /\ UNCHANGED <<anime_cache, lookups, lookup_out, first_verdict, scan_pc, reported>>
           ELSE \E o \in LookupOutcomes :
                  LET r == DetectMiss(o)
                  IN  /\ lookups' = [lookups EXCEPT ![lk] = @ + 1]
                      /\ lookup_out' = [lookup_out EXCEPT ![lk] = o]
                      /\ anime_cache' = IF r.store = "unset" THEN anime_cache
                                        ELSE [anime_cache EXCEPT ![key] = r.store]
                      /\ first_verdict' = IF first_verdict[key] = "unset"
                                          THEN [first_verdict EXCEPT ![key] = r.store]
                                          ELSE first_verdict
                      /\ clast' = [title |-> item.title, hit |-> FALSE, verdict |-> r.is_anime]
                      /\ IF r.raised
                         THEN /\ scan_pc' = "idle"
                              /\ reported' = "error"
                              /\ media_items' = <<>>
                              /\ UNCHANGED anime
                         ELSE /\ anime' = IF r.is_anime THEN Append(anime, item) ELSE anime
                              /\ media_items' = Tail(media_items)
                              /\ UNCHANGED <<scan_pc, reported>>
    /\ UNCHANGED <<scan_root, scan_entries, scan_detect, movies, tv_shows, scan_result,
                   handed, scans>>
    /\ UNCHANGED <<svars, evars, ivars, bvars, rvars, kvars, tvars, mvars>>

\* The items of a list whose lower-cased title is not among the given ones.
WithoutTitles(items, titles) ==
    LET keep == [i \in 1..Len(items) |-> Lower(items[i].title) \notin titles]
        idx == Select(Len(items), keep)
    IN  [j \in 1..Len(idx) |-> items[idx[j]]]

\* scan_directory after _detect_anime: the anime titles are taken out of the
\* other two lists and the ScanResult is returned.
ScanReturn ==
    /\ scan_pc = "detect"
    /\ media_items = <<>>
    /\ LET anime_titles == {Lower(anime[i].title) : i \in 1..Len(anime)}
       IN  /\ movies' = WithoutTitles(movies, anime_titles)
           /\ tv_shows' = WithoutTitles(tv_shows, anime_titles)
    /\ scan_result' = [movies |-> movies', tv_shows |-> tv_shows', anime |-> anime]
    /\ scan_pc' = "returned"
    /\ UNCHANGED <<scan_root, scan_entries, anime_cache, scan_detect, anime, media_items,
                   handed, reported, scans, lookups, lookup_out, first_verdict, clast>>
    /\ UNCHANGED <<svars, evars, ivars, bvars, rvars, kvars, tvars, mvars>>

\* The scheduler's use of the result: _process_scan_results hands every show to
\* set_tv_show_icon, every anime item to set_anime_icon and every movie to
\* embed_movie_thumbnail, as far as the features are enabled, and the scan is
\* reported as completed.
ProcessScanResults ==
    /\ scan_pc = "returned"
    /\ \E f_tv \in BOOLEAN, f_movies \in BOOLEAN :
         handed' = [tv_shows |-> IF f_tv THEN scan_result.tv_shows ELSE <<>>,
                    anime |-> IF scan_detect THEN scan_result.anime ELSE <<>>,
                    movies |-> IF f_movies THEN scan_result.movies ELSE <<>>]
    /\ reported' = "completed"
    /\ scan_pc' = "idle"
    /\ UNCHANGED <<scan_root, scan_entries, anime_cache, scan_detect, movies, tv_shows, anime,
                   media_items, scan_result, scans, lookups, lookup_out, first_verdict, clast>>
    /\ UNCHANGED <<svars, evars, ivars, bvars, rvars, kvars, tvars, mvars>>

ScanNext ==
    \/ scan_directory
    \/ DetectAnime
    \/ ScanReturn
    \/ ProcessScanResults

(***************************************************************************)
(* IconManager.clean_icon_cache and clean_cache                            *)
(***************************************************************************)
\* The two directories clean_icon_cache sweeps, in its order, and the
\* extension of the files cache_poster and create_folder_icon put there.
CacheDirs == <<"posters", "icons">>
CacheDirSet == {CacheDirs[i] : i \in 1..Len(CacheDirs)}
Extension(dir) == IF dir = "posters" THEN "jpg" ELSE "ico"
CacheFileIds == 1..NCacheFiles

\* cache_dir.glob("*.jpg"): the files of the directory, as listed when the
\* sweep of the directory starts, whose name matches the pattern.
GlobMatchesAll(dir) == TRUE
GlobMatches(dir) == Extension(dir) = "jpg"
Glob(dir, files) ==
    LET keep == [i \in CacheFileIds |-> files[dir][i] # "absent" /\ GlobMatches(dir)]
    IN  Select(NCacheFiles, keep)

\* No sweep has run; the cache directories are empty.
SweepIdle ==
    /\ cache_files = [dir \in CacheDirSet |-> [i \in CacheFileIds |-> "absent"]]
    /\ kpc = "idle"
    /\ kqueue = <<>>
    /\ kstep = "is_file"
    /\ deleted_count = 0
    /\ poster_deleted = 0
    /\ total_deleted = 0
    /\ swept = {}
    /\ other_deleted = {}

\* No sweep has run; the cache directories hold some files, old and fresh.
SweepInit ==
    /\ cache_files \in [CacheDirSet -> [CacheFileIds -> {"absent", "fresh", "old"}]]
    /\ kpc = "idle"
    /\ kqueue = <<>>
    /\ kstep = "is_file"
    /\ deleted_count = 0
    /\ poster_deleted = 0
    /\ total_deleted = 0
    /\ swept = {}
    /\ other_deleted = {}

\* clean_icon_cache calls clean_cache(poster_cache_dir): the glob is started.
clean_icon_cache ==
    /\ kpc = "idle"
    /\ kpc' = CacheDirs[1]
    /\ kqueue' = Glob(CacheDirs[1], cache_files)
    /\ kstep' = "is_file"
    /\ deleted_count' = 0
    /\ UNCHANGED <<cache_files, poster_deleted, total_deleted, swept, other_deleted>>
    /\ UNCHANGED <<svars, evars, ivars, bvars, rvars, cvars, tvars, mvars>>

\* clean_cache returns n for the directory being swept, leaving the files as
\* they are at that moment: clean_icon_cache goes
\* on to the icon directory, or adds the two numbers up and returns.
SweepReturns(n) ==
    IF kpc = CacheDirs[1]
    THEN /\ poster_deleted' = n
         /\ kpc' = CacheDirs[2]
         /\ kqueue' = Glob(CacheDirs[2], cache_files)
         /\ kstep' = "is_file"
         /\ deleted_count' = 0
         /\ UNCHANGED total_deleted
    ELSE /\ total_deleted' = poster_deleted + n
         /\ kpc' = "done"
         /\ kqueue' = <<>>
         /\ kstep' = "is_file"
         /\ UNCHANGED <<poster_deleted, deleted_count>>

\* clean_cache: file_path.is_file() on the next file of the glob; a file that
\* is gone by now is passed over.
SweepIsFile ==
    /\ kpc \in CacheDirSet
    /\ kstep = "is_file"
    /\ kqueue # <<>>
    /\ IF cache_files[kpc][Head(kqueue)] # "absent"
       THEN kstep' = "stat" /\ UNCHANGED kqueue
       ELSE kstep' = "is_file" /\ kqueue' = Tail(kqueue)
    /\ UNCHANGED <<cache_files, kpc, deleted_count, poster_deleted, total_deleted, swept,
                   other_deleted>>
    /\ UNCHANGED <<svars, evars, ivars, bvars, rvars, cvars, tvars, mvars>>

\* clean_cache: file_path.stat() and, for a file older than max_age,
\* file_path.unlink(). For a file that is gone by now stat raises, and the
\* except clause around the whole sweep returns 0.
SweepStat ==
    /\ kpc \in CacheDirSet
    /\ kstep = "stat"
    /\ LET i == Head(kqueue)
       IN  CASE cache_files[kpc][i] = "absent" ->
                  /\ SweepReturns(0)
                  /\ UNCHANGED <<cache_files, swept>>
             [] cache_files[kpc][i] = "old" ->
                  /\ cache_files' = [cache_files EXCEPT ![kpc][i] = "absent"]
                  /\ swept' = swept \cup {<<kpc, i>>}
                  /\ deleted_count' = deleted_count + 1
                  /\ kqueue' = Tail(kqueue)
                  /\ kstep' = "is_file"
                  /\ UNCHANGED <<kpc, poster_deleted, total_deleted>>
             [] cache_files[kpc][i] = "fresh" ->
                  /\ kqueue' = Tail(kqueue)
                  /\ kstep' = "is_file"
                  /\ UNCHANGED <<cache_files, swept, deleted_count, kpc, poster_deleted,
                                 total_deleted>>
    /\ UNCHANGED other_deleted
    /\ UNCHANGED <<svars, evars, ivars, bvars, rvars, cvars, tvars, mvars>>

\* clean_cache: the glob is exhausted, deleted_count is returned.
SweepDirDone ==
    /\ kpc \in CacheDirSet
    /\ kstep = "is_file"
    /\ kqueue = <<>>
    /\ SweepReturns(deleted_count)
    /\ UNCHANGED <<cache_files, swept, other_deleted>>
    /\ UNCHANGED <<svars, evars, ivars, bvars, rvars, cvars, tvars, mvars>>

\* Another actor deletes a cache file while the sweep is running.
OtherActorDeletes ==
    /\ kpc \in CacheDirSet
    /\ Cardinality(other_deleted) < MaxOtherDeletes
    /\ \E dir \in CacheDirSet, i \in CacheFileIds :
         /\ cache_files[dir][i] # "absent"
         /\ cache_files' = [cache_files EXCEPT ![dir][i] = "absent"]
         /\ other_deleted' = other_deleted \cup {<<dir, i>>}
    /\ UNCHANGED <<kpc, kqueue, kstep, deleted_count, poster_deleted, total_deleted, swept>>
    /\ UNCHANGED <<svars, evars, ivars, bvars, rvars, cvars, tvars, mvars>>

SweepNext ==
    \/ clean_icon_cache
    \/ SweepIsFile
    \/ SweepStat
    \/ SweepDirDone
    \/ OtherActorDeletes

\* clean_cache(cache_dir, max_age_days) on a cache directory of the icon
\* manager: of the files the glob yields, those older than max_age (old) are
\* unlinked.
CleanCache(dir, files, old) ==
    [k \in DOMAIN files |->
        IF GlobMatches(dir) /\ ArtExists(files[k]) /\ k \in old THEN "absent" ELSE files[k]]

\* clean_icon_cache is called between two apply calls, on the directories the
\* applies fill: the poster directory, then the icon directory.
clean_applied_caches ==
    /\ ipc = "idle"
    /\ rpc = "idle"
    /\ \E oldp \in SUBSET DOMAIN posters, oldi \in SUBSET DOMAIN icons :
         /\ posters' = CleanCache(CacheDirs[1], posters, oldp)
         /\ icons' = CleanCache(CacheDirs[2], icons, oldi)
         /\ evicted' = evicted
                \cup {<<CacheDirs[1], k>> : k \in {j \in DOMAIN posters : posters'[j] # posters[j]}}
                \cup {<<CacheDirs[2], k>> : k \in {j \in DOMAIN icons : icons'[j] # icons[j]}}
    /\ UNCHANGED <<rlast, remove_calls, rpc>>
    /\ UNCHANGED <<icon_client, folders, ipc, icall, iret, ilog, iapplied, icon_calls>>
    /\ UNCHANGED <<svars, evars, bvars, cvars, kvars, tvars, mvars>>

IconSweepNext ==
    \/ IconInvoke
    \/ IconSteps
    \/ IconDone
    \/ clean_applied_caches

(***************************************************************************)
(* Title parsing (utils/file_utils.py). A file stem or folder name is a    *)
(* sequence of atoms: a word (a maximal run of letters and digits) or one  *)
(* separator character. Two adjacent word atoms stand for one longer word. *)
(***************************************************************************)
OpenBrackets == {"(", "["}
CloseBrackets == {")", "]"}
Blank == {" "}
Joiners == {".", "-", "_"}
NonWordAtoms == OpenBrackets \cup CloseBrackets \cup Blank \cup {".", "-"}
IsWordAtom(a) == a \notin NonWordAtoms

QualityTerms ==
    {"bluray", "bdrip", "dvdrip", "webrip", "hdtv", "hdcam", "720p", "1080p", "4k",
     "uhd", "x264", "x265", "hevc", "aac", "dts", "ac3", "extended", "unrated"}
\* the last quality term, directors.cut, spans three atoms
QualityPhrase == <<"directors", ".", "cut">>

\* the lower-case form of a word, for the case-insensitive match of the quality terms
LowerAtom(a) ==
    CASE a = "BluRay" -> "bluray"
      [] a = "Directors" -> "directors"
      [] a = "Cut" -> "cut"
      [] OTHER -> a

\* the words made of exactly four digits, with their values
YearAtoms == {"1999", "2049"}
YearValue(a) == CASE a = "1999" -> 1999 [] a = "2049" -> 2049 [] OTHER -> 0
MinYear == 1900
MaxYear == 2030
NoYear == 0

MatrixName ==
    <<"The", ".", "Matrix", ".", "1999", ".", "1080p", ".", "BluRay", ".", "x264">>
NameAtoms == {"The", "1999", "2049", "1080p", ".", " ", "(", ")", "[", "]"}
DirectorsCutName == <<"Alien", ".", "Directors", ".", "Cut", ".", "1999">>
RawNames ==
    {t \in UNION {[1..n -> NameAtoms] : n \in 1..MaxNameAtoms} :
        \E i \in 1..Len(t) : IsWordAtom(t[i])} \cup {MatrixName, DirectorsCutName}

\* the first position of t that matches the pattern, 0 when none does
FirstMatch(t, Matches(_)) ==
    IF \E i \in 1..Len(t) : Matches(i)
    THEN CHOOSE i \in 1..Len(t) : Matches(i) /\ \A j \in 1..(i - 1) : ~Matches(j)
    ELSE 0

\* extract_year_from_filename: the patterns are tried in order; a pattern's
\* first match decides for that pattern, and a year outside 1900..2030 passes
\* on to the next pattern
YearAt(t, i) == i >= 1 /\ i <= Len(t) /\ t[i] \in YearAtoms
Between(t, i, open, close) ==
    /\ t[i] \in open
    /\ YearAt(t, i + 1)
    /\ i + 2 <= Len(t)
    /\ t[i + 2] \in close
AtEnd(t, i) == t[i] = "." /\ YearAt(t, i + 1) /\ i + 1 = Len(t)
YearPatterns == 1..5
PatternMatches(t, p, i) ==
    CASE p = 1 -> Between(t, i, {"("}, {")"})
      [] p = 2 -> Between(t, i, {"["}, {"]"})
      [] p = 3 -> Between(t, i, {"."}, {"."})
      [] p = 4 -> Between(t, i, Blank, Blank)
      [] p = 5 -> AtEnd(t, i)
PatternYear(t, p) ==
    LET M(i) == PatternMatches(t, p, i)
        i == FirstMatch(t, M)
    IN  IF i = 0 THEN NoYear
        ELSE IF YearValue(t[i + 1]) >= MinYear /\ YearValue(t[i + 1]) <= MaxYear
             THEN YearValue(t[i + 1])
             ELSE NoYear
RECURSIVE YearFrom(_, _)
YearFrom(t, p) ==
    IF p \notin YearPatterns THEN NoYear
    ELSE IF PatternYear(t, p) # NoYear THEN PatternYear(t, p)
         ELSE YearFrom(t, p + 1)
extract_year_from_filename(t) == YearFrom(t, 1)

\* re.sub(r'\s*[\(\[].*?[\)\]]', '', title): blanks, an opening bracket and
\* everything up to the first closing bracket of either kind
RECURSIVE RemoveGroups(_)
RemoveGroups(t) ==
    IF t = <<>> THEN <<>>
    ELSE LET NotBlank(i) == t[i] \notin Blank
             q == FirstMatch(t, NotBlank)
             IsClose(i) == i > q /\ t[i] \in CloseBrackets
             r == FirstMatch(t, IsClose)
         IN  IF q # 0 /\ t[q] \in OpenBrackets /\ r # 0
             THEN RemoveGroups(SubSeq(t, r + 1, Len(t)))
             ELSE <<Head(t)>> \o RemoveGroups(Tail(t))

\* re.sub(rf'\b{term}\b', '', title, flags=re.IGNORECASE) for every quality
\* term: a word is removed when it is a term and is a whole word
IsWholeWord(t, i) ==
    /\ i = 1 \/ ~IsWordAtom(t[i - 1])
    /\ i = Len(t) \/ ~IsWordAtom(t[i + 1])
PhraseAt(t, i) ==
    /\ i >= 1
    /\ i + 2 <= Len(t)
    /\ \A k \in 1..3 : LowerAtom(t[i + k - 1]) = QualityPhrase[k]
    /\ i = 1 \/ ~IsWordAtom(t[i - 1])
    /\ i + 2 = Len(t) \/ ~IsWordAtom(t[i + 3])
RemoveQualityTerms(t) ==
    LET Keep(i) == /\ ~(LowerAtom(t[i]) \in QualityTerms /\ IsWholeWord(t, i))
                   /\ ~\E j \in {i - 2, i - 1, i} : PhraseAt(t, j)
        RECURSIVE From(_)
        From(i) ==
            IF i > Len(t) THEN <<>>
            ELSE IF Keep(i) THEN <<t[i]>> \o From(i + 1) ELSE From(i + 1)
    IN  From(1)

\* re.sub(pattern+, ' ', s): every maximal run of atoms of S becomes one blank
RECURSIVE RunsToBlank(_, _)
RunsToBlank(t, S) ==
    IF t = <<>> THEN <<>>
    ELSE IF Head(t) \in S
         THEN IF Tail(t) # <<>> /\ Head(Tail(t)) \in S
              THEN RunsToBlank(Tail(t), S)
              ELSE <<" ">> \o RunsToBlank(Tail(t), S)
         ELSE <<Head(t)>> \o RunsToBlank(Tail(t), S)

RECURSIVE StripBlanks(_)
StripBlanks(t) ==
    IF t # <<>> /\ Head(t) \in Blank THEN StripBlanks(Tail(t))
    ELSE IF t # <<>> /\ t[Len(t)] \in Blank THEN StripBlanks(SubSeq(t, 1, Len(t) - 1))
    ELSE t

clean_title(t) ==
    StripBlanks(RunsToBlank(RunsToBlank(RemoveQualityTerms(RemoveGroups(t)), Joiners),
                            Blank))

NoItem == [kept |-> FALSE, title |-> <<>>, year |-> NoYear]

\* scan_movies, for one video file: the item is appended only with a title
ParseMovieItem(stem) ==
    IF clean_title(stem) # <<>>
    THEN [kept |-> TRUE, title |-> clean_title(stem),
          year |-> extract_year_from_filename(stem)]
    ELSE NoItem

\* scan_tv_shows, for one show folder: the item is appended whatever the title
ParseShowItem(name) == [kept |-> TRUE, title |-> clean_title(name), year |-> NoYear]

\* the titles get_safe_filename is given: a short tail, alone or after a long
\* run of letters that brings the name to the length limit
LongPrefix == 98
MaxSafeTail == 3
SafeChars == {"a", " ", ".", "_", ":"}
Pad(n) == [i \in 1..n |-> "a"]
SafeInputs ==
    {Pad(n) \o tail : n \in {0, LongPrefix},
                      tail \in UNION {[1..k -> SafeChars] : k \in 1..MaxSafeTail}}

TitleIdle ==
    /\ raw_name = <<>>
    /\ parse_pc = "init"
    /\ parsed = NoItem
    /\ safe_in = <<>>
    /\ safe_out = <<>>
    /\ safe_again = <<>>

ParseInit ==
    /\ raw_name \in RawNames
    /\ parse_pc = "init"
    /\ parsed = NoItem
    /\ safe_in = <<>>
    /\ safe_out = <<>>
    /\ safe_again = <<>>

KeyInit ==
    /\ raw_name = <<>>
    /\ parse_pc = "init"
    /\ parsed = NoItem
    /\ safe_in \in SafeInputs
    /\ safe_out = <<>>
    /\ safe_again = <<>>

ParseMovie ==
    /\ parse_pc = "init"
    /\ raw_name # <<>>
    /\ parse_pc' = "movie"
    /\ parsed' = ParseMovieItem(raw_name)
    /\ UNCHANGED <<raw_name, safe_in, safe_out, safe_again>>
    /\ UNCHANGED <<svars, evars, ivars, bvars, rvars, cvars, kvars, mvars>>

ParseShow ==
    /\ parse_pc = "init"
    /\ raw_name # <<>>
    /\ parse_pc' = "show"
    /\ parsed' = ParseShowItem(raw_name)
    /\ UNCHANGED <<raw_name, safe_in, safe_out, safe_again>>
    /\ UNCHANGED <<svars, evars, ivars, bvars, rvars, cvars, kvars, mvars>>

\* a cache key is computed from a title, and again from the key
SafeName ==
    /\ parse_pc = "init"
    /\ safe_in # <<>>
    /\ parse_pc' = "key"
    /\ safe_out' = get_safe_filename(safe_in)
    /\ safe_again' = get_safe_filename(get_safe_filename(safe_in))
    /\ UNCHANGED <<raw_name, parsed, safe_in>>
    /\ UNCHANGED <<svars, evars, ivars, bvars, rvars, cvars, kvars, mvars>>

ParseNext == ParseMovie \/ ParseShow
KeyNext == SafeName

(***************************************************************************)
(* AniListClient.is_likely_anime (api/anilist_client.py): the verdict on a *)
(* title from the candidate search_anime returned for it.                  *)
(***************************************************************************)
\* str.split(): the maximal runs of characters that are not whitespace
RECURSIVE Split(_)
Split(s) ==
    IF s = <<>> THEN <<>>
    ELSE IF Head(s) \in Whitespace THEN Split(Tail(s))
    ELSE LET IsBlank(i) == s[i] \in Whitespace
             e == FirstMatch(s, IsBlank)
         IN  IF e = 0 THEN <<s>>
             ELSE <<SubSeq(s, 1, e - 1)>> \o Split(SubSeq(s, e, Len(s)))

\* word in anime_word
IsSubstring(w, v) ==
    \E k \in 0..(Len(v) - Len(w)) : SubSeq(v, k + 1, k + Len(w)) = w

\* sum(1 for word in search_terms if any(word in anime_word for anime_word in anime_words))
MatchCount(terms, words) ==
    Cardinality({i \in 1..Len(terms) :
                    \E j \in 1..Len(words) : IsSubstring(terms[i], words[j])})

\* a threshold that wants every word of the query matched
VariantMatchesAll(terms, words) == MatchCount(terms, words) >= Len(terms)

\* matches >= len(search_terms) * 0.7
VariantMatches(terms, words) == 10 * MatchCount(terms, words) >= 7 * Len(terms)

NoCandidate == [found |-> FALSE, title |-> <<>>]

\* is_likely_anime, after search_anime has returned cand; the variants are
\* visited in order, an empty or missing one is passed over
LikelyAnime(title, cand) ==
    LET search_terms == Split(Lower(title))
        RECURSIVE From(_)
        From(i) ==
            IF i > Len(cand.title) THEN FALSE
            ELSE IF /\ cand.title[i] # <<>>
                    /\ VariantMatches(search_terms, Split(Lower(cand.title[i])))
                 THEN TRUE
                 ELSE From(i + 1)
    IN  IF ~cand.found THEN FALSE ELSE From(1)

\* the titles asked about: words joined by one or two blanks
RECURSIVE Join(_, _)
Join(ws, gaps) ==
    IF ws = <<>> THEN <<>>
    ELSE IF Len(ws) = 1 THEN Head(ws)
    ELSE Head(ws) \o Head(gaps) \o Join(Tail(ws), Tail(gaps))
QueryWords == {<<"A">>, <<"b">>, <<"c">>}
Gaps == {<<" ">>, <<" ", "\t">>}
Queries ==
    {Join(ws, [i \in 1..Len(ws) |-> g]) :
        ws \in UNION {[1..n -> QueryWords] : n \in 1..MaxQueryTokens}, g \in Gaps}
Variants == {<<>>, <<"a", "b">>, <<"B", " ", "a">>, <<"c">>}
Candidates ==
    {NoCandidate} \cup {[found |-> TRUE, title |-> <<v1, v2>>] : v1, v2 \in Variants}
                  \cup {[found |-> TRUE, title |-> <<>>]}

MatchIdle ==
    /\ mquery = <<>>
    /\ mcandidate = NoCandidate
    /\ match_pc = "init"
    /\ mverdict = FALSE

MatchInit ==
    /\ mquery \in Queries
    /\ mcandidate \in Candidates
    /\ match_pc = "init"
    /\ mverdict = FALSE

is_likely_anime_call ==
    /\ match_pc = "init"
    /\ match_pc' = "done"
    /\ mverdict' = LikelyAnime(mquery, mcandidate)
    /\ UNCHANGED <<mquery, mcandidate>>
    /\ UNCHANGED <<svars, evars, ivars, bvars, rvars, cvars, kvars, tvars>>

MatchNext == is_likely_anime_call

(***************************************************************************)
(* Specifications                                                          *)
(***************************************************************************)
\* Nothing outside the four subsystems above has run.
ExtraIdle == RemoveIdle /\ ScanIdle /\ SweepIdle /\ TitleIdle /\ MatchIdle

InitSched == SchedInit /\ EmbedIdle /\ IconIdle /\ BatchIdle /\ ExtraIdle
SpecSched == InitSched /\ [][SchedNext]_vars

InitEmbed == SchedInit /\ EmbedInit /\ IconIdle /\ BatchIdle /\ ExtraIdle
SpecEmbed == InitEmbed /\ [][EmbedNext]_vars

InitIcon == SchedInit /\ EmbedIdle /\ IconInit /\ BatchIdle /\ ExtraIdle
SpecIcon == InitIcon /\ [][IconNext]_vars

InitIconSweep == SchedInit /\ EmbedIdle /\ IconInit /\ BatchIdle /\ ExtraIdle
SpecIconSweep == InitIconSweep /\ [][IconSweepNext]_vars

InitBatch == SchedInit /\ BatchInit /\ ExtraIdle

InitScan == SchedInit /\ EmbedIdle /\ IconIdle /\ BatchIdle /\ RemoveIdle /\ ScanInit
            /\ SweepIdle /\ TitleIdle /\ MatchIdle
SpecScan == InitScan /\ [][ScanNext]_vars

InitSweep == SchedInit /\ EmbedIdle /\ IconIdle /\ BatchIdle /\ RemoveIdle /\ ScanIdle
             /\ SweepInit /\ TitleIdle /\ MatchIdle
SpecSweep == InitSweep /\ [][SweepNext]_vars
SpecBatch == InitBatch /\ [][BatchNext]_vars

InitParse == SchedInit /\ EmbedIdle /\ IconIdle /\ BatchIdle /\ RemoveIdle /\ ScanIdle
             /\ SweepIdle /\ ParseInit /\ MatchIdle
SpecParse == InitParse /\ [][ParseNext]_vars

InitKey == SchedInit /\ EmbedIdle /\ IconIdle /\ BatchIdle /\ RemoveIdle /\ ScanIdle
           /\ SweepIdle /\ KeyInit /\ MatchIdle
SpecKey == InitKey /\ [][KeyNext]_vars

InitMatch == SchedInit /\ EmbedIdle /\ IconIdle /\ BatchIdle /\ RemoveIdle /\ ScanIdle
             /\ SweepIdle /\ TitleIdle /\ MatchInit
SpecMatch == InitMatch /\ [][MatchNext]_vars

(***************************************************************************)
(* Properties                                                              *)
(***************************************************************************)
\* A run is inside its scan/apply section from the moment it has set the flag
\* until its finally block.
InSection(r) == spc[r] \in PhaseSet \cup {"except"}
Active == {r \in Runs : InSection(r)}

\* C1: at most one run is inside its scan/apply section at any time, over every
\* interleaving of manual_scan and _perform_scheduled_scan.
C1_MutualExclusion == Cardinality(Active) <= 1

\* The movie the last embed call was about, and whether that call got as far
\* as _embed_with_ffmpeg and returned failure.
LastMovie == efs[elast.m]
LastFailedInFfmpeg == elast.m # 0 /\ elast.stage = "ffmpeg" /\ ~elast.ret

\* C2: whenever embed_movie_thumbnail returns failure by a path through
\* _embed_with_ffmpeg, the original video still exists with its original content.
C2_OriginalSurvivesFailure ==
    (LastFailedInFfmpeg /\ elast.pre.exists) => LastMovie.video = elast.pre

\* C3: if the tool exits with a non-zero code, the call reports failure and the
\* original video's content and size are unchanged.
C3_NonZeroExitLeavesOriginal ==
    (elast.m # 0 /\ elast.rc = "nonzero") =>
        /\ ~elast.ret
        /\ LastMovie.video = elast.pre
        /\ Len(LastMovie.video.data) = Len(elast.pre.data)

C3_Witness ==
    /\ elast.m # 0 /\ elast.rc = "nonzero" /\ elast.out = "partial"
    /\ elast.pre.exists /\ LastMovie.backup.exists

\* C4: after a failed embed (non-zero exit, timeout or missing output) in which
\* no unlink or rename call raised, no temporary output file is left on disk.
C4_NoTempAfterFailure ==
    (LastFailedInFfmpeg /\ elast.rc # "notrun" /\ elast.swap = "none") =>
        ~LastMovie.temp.exists

\* C5: the original is replaced by the temporary output only when the tool
\* exited 0 and the output is non-empty; exit 0 with a zero-byte output is a
\* failure that leaves the original in place.
C5_SwapOnlyNonEmpty ==
    /\ (elast.m # 0 /\ elast.swap = "done") =>
          (elast.rc = "zero" /\ Len(LastMovie.video.data) > 0)
    /\ (elast.m # 0 /\ elast.rc = "zero" /\ elast.out = "empty") =>
          (~elast.ret /\ LastMovie.video = elast.pre)

C7_ArtifactsComplete ==
    /\ \A k \in DOMAIN posters : posters[k] \in {"absent", "complete"}
    /\ \A k \in DOMAIN icons : icons[k] \in {"absent", "complete"}
    /\ \A k \in DOMAIN thumbs : thumbs[k] \in {"absent", "complete"}

\* How many finished items of the batch had an apply of kind k.
CountKind(k) == Cardinality({i \in 1..Len(bout) : bout[i] = k})
Skipped(result) == IF "skipped" \in DOMAIN result THEN result.skipped ELSE 0

\* C8: a batch of N items with a progress callback (which never raises), in
\* which exactly one item fails, by returning failure or by raising, and the
\* others are applied, returns failed=1, successful=N-1, total=N and has
\* invoked the callback exactly N times.
C8_BatchIsolation ==
    (/\ bpc = "done" /\ bcb /\ ~bcb_raised
     /\ CountKind("failed") + CountKind("raised") = 1
     /\ CountKind("applied") = Len(bitems) - 1)
    => /\ bresult.failed = 1
       /\ bresult.successful = Len(bitems) - 1
       /\ bresult.total = Len(bitems)
       /\ bcalls = Len(bitems)

\* C9: in a batch summary (of a batch in which nothing but an apply raised) the
\* items short-circuited as already applied are counted under 'skipped', and
\* under neither 'successful' nor 'failed'.
C9_SkippedCounted ==
    (bpc = "done" /\ ~bcb_raised)
    => /\ Skipped(bresult) = CountKind("already")
       /\ bresult.successful = CountKind("applied")
       /\ bresult.failed = CountKind("failed") + CountKind("raised")

\* C10: a set_tv_show_icon / set_anime_icon call without force on a folder that
\* already carries the marker returns success through the skip path, leaves the
\* folder (marker, attributes) and the caches as they were, and does no lookup,
\* download or write.
C10_SecondApplySkips ==
    (ipc # "idle" /\ icall.f # 0 /\ ~icall.force /\ icall.pre.marker.st # "absent")
    => /\ ipc = "returned"
       /\ iret = TRUE
       /\ ilog = "skipping"
       /\ folders[icall.f] = icall.pre
       /\ icons = icall.pre_icons
       /\ posters = icall.pre_posters
       /\ icall.ops = 0

C10_Witness ==
    /\ ipc = "returned" /\ ilog = "skipping" /\ ~icall.force
    /\ icall.f \in iapplied
    /\ folders[icall.f] = AppliedFolder(folders[icall.f].marker.icon)

\* C11: while create_desktop_ini runs on a folder that did not carry the
\* read-only attribute before this apply, the folder carries it only once
\* desktop.ini exists with its complete content, naming this apply's icon.
C11_MarkerBeforeAttribute ==
    (ipc # "idle" /\ icall.f # 0 /\ ~icall.pre.readonly /\ folders[icall.f].readonly)
    => /\ folders[icall.f].marker.st = "complete"
       /\ folders[icall.f].marker.icon = CallKey

C11_Witness ==
    /\ ipc = "returned" /\ ilog = "success"
    /\ ~icall.pre.readonly /\ icall.pre.marker.st = "absent"
    /\ folders[icall.f].readonly

C13_LookupOncePerTitle ==
    /\ \A k \in LowerTitles : lookups[k] <= 1
    /\ \A k \in CacheKeys : first_verdict[k] # "unset" => anime_cache[k] = first_verdict[k]
    /\ clast.hit => (clast.verdict <=> first_verdict[Lower(clast.title)] = "true")

C13_Witness ==
    /\ scans = 2 /\ clast.hit /\ clast.verdict
    /\ clast.title # Lower(clast.title)
    /\ lookups[Lower(clast.title)] = 1

\* C14: a title whose lookup raised or found no candidate is cached as not
\* anime, is in no anime list, was looked up once only, and the scan went on:
\* no scan is reported as failed.
C14_LookupFailureIsFalse ==
    /\ reported # "error"
    /\ \A k \in LowerTitles :
         lookup_out[k] \in {"raise", "none"}
         => /\ anime_cache[k] = "false"
            /\ lookups[k] = 1
            /\ \A i \in 1..Len(anime) : Lower(anime[i].title) # k
            /\ \A i \in 1..Len(scan_result.anime) : Lower(scan_result.anime[i].title) # k

C14_Witness ==
    /\ scan_pc = "returned" /\ scans = 2
    /\ \E k \in LowerTitles :
         /\ lookup_out[k] = "raise"
         /\ Lower(clast.title) # k /\ ~clast.hit /\ clast.verdict
         /\ Len(scan_result.anime) = 1

\* C16: every item of ScanResult.anime, and every item handed to
\* set_anime_icon, is a show folder found by scan_tv_shows.
C16_AnimeAreShowFolders ==
    /\ \A i \in 1..Len(scan_result.anime) : scan_result.anime[i].kind = "show"
    /\ \A i \in 1..Len(handed.anime) : handed.anime[i].kind = "show"

\* C19: when scan_movies and scan_tv_shows have walked a media directory, every
\* video file in a branch that can be read is in movies and every show folder
\* that can be read is in tv_shows, whatever other branch cannot be read.
C19_ReadableBranchesScanned ==
    (scan_pc = "detect" /\ scan_root = "dir")
    => \A i \in 1..Len(scan_entries) :
         LET e == scan_entries[i]
         IN  /\ (e.kind = "movie" \/ (e.kind = "folder" /\ ~e.locked))
                => \E j \in 1..Len(movies) : movies[j] = MovieItem(i, e)
             /\ (e.kind = "show" /\ ~e.locked)
                => \E j \in 1..Len(tv_shows) : tv_shows[j] = ShowItem(i, e)

\* C20: for a media directory that does not exist or is no directory, no walk
\* is made, no ScanResult is returned and no scan is reported as completed.
C20_InvalidRootRejected ==
    scan_root # "dir"
    => /\ scan_pc \notin {"detect", "returned"}
       /\ scan_result = NoResult
       /\ reported # "completed"

\* C15: an apply whose icon is already cached complete under its cache key
\* uses it where it is: no poster download, no poster or icon save, the caches
\* stay as they were and the marker names the icon of that key; and
\* _prepare_thumbnail on a cached thumbnail returns it without producing it.
C15_CachedArtifactReused ==
    /\ (icall.f # 0 /\ icall.pre_icons[CallKey] = "complete")
       => /\ icall.prod = 0
          /\ icons = icall.pre_icons
          /\ posters = icall.pre_posters
          /\ (ipc = "returned" /\ ilog = "success")
             => folders[icall.f].marker.icon = CallKey
    /\ \A env \in EmbedEnvs :
         PrepareThumbnail("complete", env) = [art |-> "complete", ok |-> TRUE, produced |-> FALSE]

C15_Witness ==
    /\ icall.f # 0 /\ icall.pre_icons[CallKey] = "complete"
    /\ ipc = "returned" /\ ilog = "success"
    /\ icall.prod = 0 /\ icall.ops > 0

\* The files older than max_age still lying in a cache directory, among all
\* its files and among those its sweep's pattern matches.
OldLeft(dir) == {i \in CacheFileIds : cache_files[dir][i] = "old"}

\* C17: after a clean_icon_cache that no other actor interfered with, no file
\* older than max_age is left in the poster directory or the icon directory,
\* and the number returned is the number of files removed.
C17_NoOldFileLeft ==
    (kpc = "done" /\ other_deleted = {})
    => /\ \A dir \in CacheDirSet : OldLeft(dir) = {}
       /\ total_deleted = Cardinality(swept)

\* C18: after a clean_icon_cache during which another actor deleted a cache
\* file, every other file older than max_age that the sweep's pattern matches
\* is removed, and the number returned is the number of files the sweep removed.
C18_SweepSurvivesDeletion ==
    (kpc = "done" /\ other_deleted # {})
    => /\ \A dir \in CacheDirSet : Extension(dir) = "jpg" => OldLeft(dir) = {}
       /\ total_deleted = Cardinality(swept)

\* C21: every item a scan returns, movie file or show folder, has a non-empty
\* title; a candidate whose cleaned title is empty is dropped.
C21_ReturnedItemsHaveTitle ==
    (parse_pc \in {"movie", "show"} /\ parsed.kept) => parsed.title # <<>>

\* C23: get_safe_filename is idempotent: applied to its own output, for every
\* title and also those longer than 100 characters, it returns the same string.
C23_SafeFilenameIdempotent ==
    parse_pc = "key" => safe_again = safe_out

\* C24: when a release year is extracted from a movie file name, the year
\* token is not part of the item's title (names that carry the year once);
\* The.Matrix.1999.1080p.BluRay.x264 yields the title "The Matrix" and 1999.
Occurrences(t, a) == Cardinality({i \in 1..Len(t) : t[i] = a})
C24_YearStrippedFromTitle ==
    (parse_pc = "movie" /\ parsed.kept /\ parsed.year # NoYear) =>
        /\ \A a \in YearAtoms :
              (YearValue(a) = parsed.year /\ Occurrences(raw_name, a) = 1)
                  => Occurrences(parsed.title, a) = 0
        /\ raw_name = MatrixName =>
              (parsed.title = <<"The", " ", "Matrix">> /\ parsed.year = 1999)

\* C22: when the transcoding tool cannot be resolved (no path was configured,
\* or the configured path does not exist, and none is on PATH), every
\* embed_movie_thumbnail call returns failure and changes nothing on disk: no
\* backup, no temporary output, no cached thumbnail, the video untouched.
C22_UnresolvedToolChangesNothing ==
    ffmpeg_path # "valid" =>
        /\ elast.m # 0 => ~elast.ret
        /\ \A m \in DOMAIN efs :
              efs[m] = [video |-> MkFile(evideo0[m]), backup |-> NoFile, temp |-> NoFile]
        /\ \A k \in DOMAIN thumbs : thumbs[k] = "absent"

\* C26: the in-progress flag is cleared whatever way a run ends: whenever no
\* run is between setting the flag and its cleanup, _scan_in_progress is false,
\* so the next invocation passes the flag test and starts a run.
Running == {r \in Runs : spc[r] \in PhaseSet \cup {"except", "finally"}}
C26_FlagClearedAfterRun == Running = {} => scan_in_progress = FALSE

C26_Witness ==
    /\ \E r \in Runs : r \in sraised /\ spc[r] = "done"
    /\ Running = {}
    /\ \E w \in Runs : spc[w] = "checked"

\* C27: every batch summary satisfies successful + failed + skipped = total
\* (skipped is 0 for the icon batch), whatever the items' outcomes, also when
\* an apply raises or the progress callback raises.
C27_CountersSumToTotal ==
    bpc = "done" =>
        bresult.successful + bresult.failed + Skipped(bresult) = bresult.total

\* C28: a folder-icon apply that reports failure on a folder that had no
\* marker leaves the folder without a marker, so has_custom_icon stays false
\* and a later apply without force retries.
C28_FailedApplyLeavesNoMarker ==
    (ipc = "returned" /\ ~iret /\ icall.f # 0 /\ ~has_custom_icon(icall.pre))
    => ~has_custom_icon(folders[icall.f])

\* C25: is_likely_anime returns true exactly when the lookup returned a
\* candidate and one of its non-empty title variants matches: at least 70% of
\* the query's whitespace-separated words, lower-cased, each occur inside some
\* word of the lower-cased variant. With no candidate the verdict is false.
WordSpans(s) ==
    {sp \in (1..Len(s)) \X (1..Len(s)) :
        /\ sp[1] <= sp[2]
        /\ \A i \in sp[1]..sp[2] : s[i] \notin Whitespace
        /\ sp[1] = 1 \/ s[sp[1] - 1] \in Whitespace
        /\ sp[2] = Len(s) \/ s[sp[2] + 1] \in Whitespace}
OccursIn(q, qs, v, vs) ==
    \E off \in vs[1]..vs[2] :
        /\ off + (qs[2] - qs[1]) <= vs[2]
        /\ \A d \in 0..(qs[2] - qs[1]) : LowerChar(q[qs[1] + d]) = LowerChar(v[off + d])
Matched(q, v) == {qs \in WordSpans(q) : \E vs \in WordSpans(v) : OccursIn(q, qs, v, vs)}
C25_VerdictIsSeventyPercent ==
    match_pc = "done" =>
        (mverdict <=>
            /\ mcandidate.found
            /\ \E k \in 1..Len(mcandidate.title) :
                  /\ mcandidate.title[k] # <<>>
                  /\ 10 * Cardinality(Matched(mquery, mcandidate.title[k]))
                        >= 7 * Cardinality(WordSpans(mquery)))

\* three of four words matched (75%): the verdict is true
C25_Witness ==
    /\ match_pc = "done" /\ mverdict
    /\ Cardinality(WordSpans(mquery)) = 4
    /\ \A k \in 1..Len(mcandidate.title) :
          Cardinality(Matched(mquery, mcandidate.title[k])) <= 3

C30_NoFlagWithoutMarker ==
    (/\ rlast.f # 0 /\ icon_calls = rlast.at
     /\ rlast.pre.readonly => has_custom_icon(rlast.pre))
    => (folders[rlast.f].readonly => has_custom_icon(folders[rlast.f]))

====
